---- MODULE Spec2Model ----
(***************************************************************************)
(* OpenMusic API: the token service (login, refresh-token rotation,        *)
(* logout, access-token verification) and the playlist command processor   *)
(* (access resolution, collaborations, playlist songs, activities, export  *)
(* requests), modelled as state machines over the relational store.        *)
(*                                                                         *)
(* Every request handler is one action.  Requests are served one at a      *)
(* time: a handler runs when the server is idle and records the request    *)
(* and its response in `last` and the store as it was before the request   *)
(* in `pre`, so that a property of one request (its result against the     *)
(* store it ran on, and what it changed) is a state predicate; the         *)
(* response is then delivered and the server is idle again.                *)
(***************************************************************************)
EXTENDS Integers, Sequences, FiniteSets, TLC

VARIABLES
    now,                \* wall clock, whole seconds (datetime.now -> JWT "exp")
    settings,           \* app.core.config.settings: the two signing keys
    users,              \* table users
    authentications,    \* table authentications: the refresh-token allow-list
    issued,             \* history: every token the service has returned
    consumed,           \* history: refresh tokens a rotate/logout succeeded on
    playlists,          \* table playlists
    collaborations,     \* table collaborations
    songs,              \* table songs (ids)
    playlist_songs,     \* table playlist_songs
    activities,         \* table playlist_song_activities, in insertion order
    queue,              \* messages published to the broker queue export:playlist
    last,               \* the last request served and its response
    pre,                \* the store as it was when that request arrived
    restarts,           \* times the message broker has been restarted
    delivered,          \* messages the export consumer has processed, in order
    unacked,            \* messages delivered to the consumer and not acknowledged yet
    crashes,            \* times the consumer process has died and been started again
    albums,             \* table albums (ids)
    likes,              \* table user_album_likes
    cache,              \* the Redis keys: [key, value, expires_at]
    cache_up,           \* whether Redis answers (FALSE: every command raises RedisError)
    fresh,              \* history: albums liked/unliked, with the key deleted, and not read since
    unliked,            \* history: (user, album) pairs whose like row an unlike removed, not liked again since
    requests            \* the token requests being served concurrently, step by step

authVars == <<now, settings, authentications, issued, consumed>>
playlistVars == <<playlists, collaborations, songs, playlist_songs, activities, queue>>
brokerVars == <<restarts, delivered, unacked, crashes>>
\* what neither the token service nor the playlist command processor touches
likeVars == <<albums, likes, cache, cache_up, fresh, unliked>>
raceVars == <<requests>>
extVars == <<brokerVars, likeVars, raceVars>>
vars == <<now, settings, users, authentications, issued, consumed, playlists,
          collaborations, songs, playlist_songs, activities, queue, last, pre,
          restarts, delivered, unacked, crashes, albums, likes, cache, cache_up,
          fresh, unliked, requests>>

----------------------------------------------------------------------------
(* Bounds of the model *)

\* clock advances the environment makes
MaxTicks == 2
\* token pairs the service hands out
MaxIssued == 2

(* Program constants *)

ACCESS_TOKEN_EXPIRE_MINUTES == 30
REFRESH_TOKEN_EXPIRE_DAYS == 7

AccessTtl == ACCESS_TOKEN_EXPIRE_MINUTES * 60
RefreshTtl == REFRESH_TOKEN_EXPIRE_DAYS * 24 * 60 * 60

None == "None"
OK == "success"
ValidationError == "ValidationError:400"
AuthenticationError == "AuthenticationError:401"
ForbiddenError == "ForbiddenError:403"
InternalServerError == "InternalServerError:500"
Unauthorized == "HTTPException:401"

----------------------------------------------------------------------------
(* Users and credentials *)

get_password_hash(password) == <<"bcrypt", password>>

verify_password(plain_password, hashed_password) ==
    hashed_password = get_password_hash(plain_password)

RegisteredUsers ==
    { [id |-> "user-1", username |-> "alice", password |-> get_password_hash("pw-alice")],
      [id |-> "user-2", username |-> "bob", password |-> get_password_hash("pw-bob")] }

Usernames == {"alice", "bob", "mallory"}
Passwords == {"pw-alice", "pw-bob"}
SigningKeys == {"key-a", "key-b"}

----------------------------------------------------------------------------
(* JSON Web Tokens.  HS256 over a fixed payload is deterministic, so a     *)
(* token string is determined by its claims and the signing key; "exp" is  *)
(* encoded in whole seconds.                                               *)

NoToken == [userId |-> None, exp |-> 0, type |-> None, key |-> None]

create_access_token(subject) ==
    [userId |-> subject, exp |-> now + AccessTtl, type |-> "access",
     key |-> settings.ACCESS_TOKEN_KEY]

create_refresh_token(subject) ==
    [userId |-> subject, exp |-> now + RefreshTtl, type |-> "refresh",
     key |-> settings.REFRESH_TOKEN_KEY]

\* [variant] the type claim is not compared
verify_token_untyped(token, key, expected_type) ==
    IF token.key # key \/ token.exp <= now THEN None
    ELSE IF token.userId = None THEN None
    ELSE token.userId

\* jwt.decode raises (InvalidSignatureError, ExpiredSignatureError) -> None;
\* then the userId and type claims are checked.
verify_token(token, key, expected_type) ==
    IF token.key # key \/ token.exp <= now THEN None
    ELSE IF token.userId = None \/ token.type # expected_type THEN None
    ELSE token.userId

verify_access_token(token) ==
    verify_token(token, settings.ACCESS_TOKEN_KEY, "access")

verify_refresh_token(token) ==
    verify_token(token, settings.REFRESH_TOKEN_KEY, "refresh")

\* a token signed with a key the service never had
ForgedToken ==
    [userId |-> "user-1", exp |-> RefreshTtl * (MaxTicks + 1), type |-> "refresh",
     key |-> "key-forged"]

\* what a client can present: anything it was handed, or a forgery
PresentableTokens == issued \cup {ForgedToken}

IssuedRefresh == {t \in issued : t.type = "refresh"}

----------------------------------------------------------------------------
(* Token service *)

AuthSnapshot ==
    [authentications |-> authentications, consumed |-> consumed, issued |-> issued]

AuthResponse(op, credentials, token, result, access, refresh) ==
    [op |-> op, username |-> credentials[1], password |-> credentials[2],
     token |-> token, result |-> result,
     accessToken |-> access, refreshToken |-> refresh]

NoCredentials == <<None, None>>

\* AuthService.login
login(username, password) ==
    LET found == {u \in users : u.username = username}
        reject(result) ==
            /\ last' = AuthResponse("login", <<username, password>>, NoToken, result, NoToken, NoToken)
            /\ UNCHANGED <<authentications, issued, consumed>>
    IN  /\ pre' = AuthSnapshot
        /\ UNCHANGED <<now, settings, users, playlistVars>>
        /\ IF found = {} \/ \E u \in found : ~verify_password(password, u.password)
           THEN reject(AuthenticationError)
           ELSE LET user == CHOOSE u \in found : TRUE
                    access_token == create_access_token(user.id)
                    refresh_token_ == create_refresh_token(user.id)
                IN  IF refresh_token_ \in authentications
                    THEN \* INSERT violates the primary key: IntegrityError
                         reject(InternalServerError)
                    ELSE /\ authentications' = authentications \cup {refresh_token_}
                         /\ issued' = issued \cup {access_token, refresh_token_}
                         /\ UNCHANGED consumed
                         /\ last' = AuthResponse("login", <<username, password>>, NoToken, OK,
                                                 access_token, refresh_token_)

\* [variant] the signature is verified before the record is deleted
refresh_token_verify_first(token) ==
    LET user_id == verify_refresh_token(token)
    IN  /\ pre' = AuthSnapshot
        /\ UNCHANGED <<now, settings, users, playlistVars>>
        /\ IF token \notin authentications
           THEN /\ last' = AuthResponse("refresh_token", NoCredentials, token,
                                        ValidationError, NoToken, NoToken)
                /\ UNCHANGED <<authentications, issued, consumed>>
           ELSE IF user_id = None
           THEN /\ last' = AuthResponse("refresh_token", NoCredentials, token,
                                        AuthenticationError, NoToken, NoToken)
                /\ UNCHANGED <<authentications, issued, consumed>>
           ELSE /\ authentications' =
                    (authentications \ {token}) \cup {create_refresh_token(user_id)}
                /\ issued' = issued \cup {create_access_token(user_id),
                                          create_refresh_token(user_id)}
                /\ consumed' = consumed \cup {token}
                /\ last' = AuthResponse("refresh_token", NoCredentials, token, OK,
                                        create_access_token(user_id),
                                        create_refresh_token(user_id))

\* AuthService.refresh_token
refresh_token(token) ==
    LET deleted == authentications \ {token}
        user_id == verify_refresh_token(token)
        new_access_token == create_access_token(user_id)
        new_refresh_token == create_refresh_token(user_id)
        respond(result, access, refresh) ==
            last' = AuthResponse("refresh_token", NoCredentials, token, result, access, refresh)
    IN  /\ pre' = AuthSnapshot
        /\ UNCHANGED <<now, settings, users, playlistVars>>
        /\ IF token \notin authentications
           THEN /\ respond(ValidationError, NoToken, NoToken)
                /\ UNCHANGED <<authentications, issued, consumed>>
           ELSE IF user_id = None
           THEN \* the delete is already committed
                /\ authentications' = deleted
                /\ respond(AuthenticationError, NoToken, NoToken)
                /\ UNCHANGED <<issued, consumed>>
           ELSE IF new_refresh_token \in deleted
           THEN \* INSERT violates the primary key: IntegrityError
                /\ authentications' = deleted
                /\ respond(InternalServerError, NoToken, NoToken)
                /\ UNCHANGED <<issued, consumed>>
           ELSE /\ authentications' = deleted \cup {new_refresh_token}
                /\ issued' = issued \cup {new_access_token, new_refresh_token}
                /\ consumed' = consumed \cup {token}
                /\ respond(OK, new_access_token, new_refresh_token)

\* [variant] a missing record is not an error
logout_lenient(token) ==
    /\ pre' = AuthSnapshot
    /\ UNCHANGED <<now, settings, users, issued, playlistVars>>
    /\ authentications' = authentications \ {token}
    /\ consumed' = IF token \in authentications THEN consumed \cup {token} ELSE consumed
    /\ last' = AuthResponse("logout", NoCredentials, token, OK, NoToken, NoToken)

\* AuthService.logout
logout(token) ==
    /\ pre' = AuthSnapshot
    /\ UNCHANGED <<now, settings, users, issued, playlistVars>>
    /\ IF token \in authentications
       THEN /\ authentications' = authentications \ {token}
            /\ consumed' = consumed \cup {token}
            /\ last' = AuthResponse("logout", NoCredentials, token, OK, NoToken, NoToken)
       ELSE /\ UNCHANGED <<authentications, consumed>>
            /\ last' = AuthResponse("logout", NoCredentials, token, ValidationError,
                                    NoToken, NoToken)

\* [variant] the bearer is accepted only while the user holds a refresh token
get_current_user_with_session(token) ==
    LET user_id == verify_access_token(token)
        session == \E t \in authentications : t.userId = user_id
    IN  /\ pre' = AuthSnapshot
        /\ UNCHANGED <<authVars, users, playlistVars>>
        /\ last' = AuthResponse("get_current_user", NoCredentials, token,
                                IF user_id = None \/ ~session THEN Unauthorized ELSE OK,
                                NoToken, NoToken)

\* deps.get_current_user: the guard of every protected operation
get_current_user(token) ==
    LET user_id == verify_access_token(token)
    IN  /\ pre' = AuthSnapshot
        /\ UNCHANGED <<authVars, users, playlistVars>>
        /\ last' = AuthResponse("get_current_user", NoCredentials, token,
                                IF user_id = None THEN Unauthorized ELSE OK,
                                NoToken, NoToken)

\* the clock: a second passes, or an access- or refresh-token lifetime
TicksTaken(t) ==
    (t \div RefreshTtl) + ((t % RefreshTtl) \div AccessTtl) + (t % AccessTtl)

Tick(d) ==
    /\ TicksTaken(now) < MaxTicks
    /\ now' = now + d
    /\ UNCHANGED <<settings, users, authentications, issued, consumed, playlistVars,
                   last, pre>>

----------------------------------------------------------------------------
(* Playlist command processor *)

\* successful add/remove-song requests, each writing one activity row
MaxActivities == 1

PlaylistIds == {"playlist-1", "playlist-2"}
CollaborationIds == {"collab-1", "collab-2"}
SongIds == {"song-1"}
\* ids a bearer token can carry: the registered users
RequesterIds == {u.id : u \in RegisteredUsers}
\* ids a request body can name
UserIds == RequesterIds \cup {"user-ghost"}
PlaylistNames == {"Road Trip"}
Emails == {"alice@example.com"}

PlaylistNotFound == "NotFoundError:404 Playlist not found"
SongNotFound == "NotFoundError:404 Song not found"
UserNotFound == "NotFoundError:404 User not found"
AttributeError == "AttributeError"

PlaylistSnapshot ==
    [users |-> users, playlists |-> playlists, collaborations |-> collaborations,
     songs |-> songs, playlist_songs |-> playlist_songs, activities |-> activities,
     queue |-> queue]

PlaylistResponse(op, current_user, playlist_id, target, result, data) ==
    [op |-> op, current_user |-> current_user, playlist_id |-> playlist_id,
     target |-> target, result |-> result, data |-> data]

\* select(Playlist).where(Playlist.id == playlist_id): the rows found
SelectPlaylist(playlist_id) == {p \in playlists : p.id = playlist_id}

\* select(exists().where(Collaboration.playlist_id == .., Collaboration.user_id == ..))
CollaborationExists(playlist_id, user_id) ==
    \E c \in collaborations : c.playlist_id = playlist_id /\ c.user_id = user_id

\* the playlist's songs, as get_playlist_with_songs returns them
PlaylistSongIds(playlist_id) ==
    {r.song_id : r \in {x \in playlist_songs : x.playlist_id = playlist_id}}

\* a primary key the table does not hold yet
NewRowId(table) ==
    CHOOSE i \in 1..(Cardinality(table) + 1) : \A r \in table : r.id # i

\* the effect of ON DELETE CASCADE from playlists
WithoutPlaylist(rows, playlist_id) == {r \in rows : r.playlist_id # playlist_id}

\* [variant] the collaboration rows are never consulted
verify_playlist_access_owner_only(playlist_id, user_id) ==
    LET found == SelectPlaylist(playlist_id)
    IN  IF found = {} THEN PlaylistNotFound
        ELSE IF \E p \in found : p.owner = user_id THEN OK
        ELSE ForbiddenError

\* [variant] a collaboration on any playlist grants access
verify_playlist_access_any_collaboration(playlist_id, user_id) ==
    LET found == SelectPlaylist(playlist_id)
    IN  IF found = {} THEN PlaylistNotFound
        ELSE IF \E p \in found : p.owner = user_id THEN OK
        ELSE IF \E c \in collaborations : c.user_id = user_id THEN OK
        ELSE ForbiddenError

\* PlaylistService.verify_playlist_access: OK, or the error it raises
verify_playlist_access(playlist_id, user_id) ==
    LET found == SelectPlaylist(playlist_id)
    IN  IF found = {} THEN PlaylistNotFound
        ELSE IF \E p \in found : p.owner = user_id THEN OK
        ELSE IF CollaborationExists(playlist_id, user_id) THEN OK
        ELSE ForbiddenError

\* PlaylistService.create_playlist
create_playlist(name, owner_id) ==
    \E id \in PlaylistIds :
        /\ SelectPlaylist(id) = {}
        /\ pre' = PlaylistSnapshot
        /\ playlists' = playlists \cup {[id |-> id, name |-> name, owner |-> owner_id]}
        /\ last' = PlaylistResponse("create_playlist", owner_id, id, None, OK, id)
        /\ UNCHANGED <<authVars, users, collaborations, songs, playlist_songs,
                       activities, queue>>

\* Playlist JOIN User ON owner LEFT OUTER JOIN Collaboration ON playlist_id,
\* filtered by (owner == owner_id) | (Collaboration.user_id == owner_id):
\* pairs <<playlist row, collaboration row (all NULL when none matches)>>
PlaylistJoinRows(owner_id) ==
    LET owned == {pl \in playlists : \E u \in users : u.id = pl.owner}
        matched == {<<pl, c>> \in owned \X collaborations : c.playlist_id = pl.id}
        \* the outer join's all-NULL collaboration columns
        null == [id |-> None, playlist_id |-> None, user_id |-> None]
        unmatched == {<<pl, null>> : pl \in
                         {x \in owned : ~\E c \in collaborations : c.playlist_id = x.id}}
    IN  {r \in matched \cup unmatched :
            r[1].owner = owner_id \/ r[2].user_id = owner_id}

\* the entry get_playlists builds from one result row
PlaylistEntry(pl) ==
    [id |-> pl.id, name |-> pl.name,
     username |-> (CHOOSE u \in users : u.id = pl.owner).username]

\* [variant] the join rows are returned without GROUP BY
get_playlists_ungrouped(owner_id) ==
    LET rows == PlaylistJoinRows(owner_id)
        entries == {PlaylistEntry(r[1]) : r \in rows}
        data == [e \in entries |->
                    Cardinality({r \in rows : PlaylistEntry(r[1]) = e})]
    IN  /\ pre' = PlaylistSnapshot
        /\ last' = PlaylistResponse("get_playlists", owner_id, None, None, OK, data)
        /\ UNCHANGED <<authVars, users, playlistVars>>

\* PlaylistService.get_playlists: the entries returned, as a bag
get_playlists(owner_id) ==
    LET rows == PlaylistJoinRows(owner_id)
        \* GROUP BY Playlist.id, User.username: one result row per group
        groups == {PlaylistEntry(r[1]) : r \in rows}
        data == [e \in groups |-> 1]
    IN  /\ pre' = PlaylistSnapshot
        /\ last' = PlaylistResponse("get_playlists", owner_id, None, None, OK, data)
        /\ UNCHANGED <<authVars, users, playlistVars>>

\* [variant] the activity log of the playlist is left behind
delete_playlist_keeps_activities(playlist_id, owner_id) ==
    LET found == SelectPlaylist(playlist_id)
        respond(result) ==
            last' = PlaylistResponse("delete_playlist", owner_id, playlist_id, None,
                                     result, None)
    IN  /\ pre' = PlaylistSnapshot
        /\ UNCHANGED <<authVars, users, songs, queue, activities>>
        /\ IF found = {}
           THEN /\ respond(PlaylistNotFound)
                /\ UNCHANGED <<playlists, collaborations, playlist_songs>>
           ELSE IF \E p \in found : p.owner # owner_id
           THEN /\ respond(ForbiddenError)
                /\ UNCHANGED <<playlists, collaborations, playlist_songs>>
           ELSE /\ playlists' = playlists \ found
                /\ collaborations' = WithoutPlaylist(collaborations, playlist_id)
                /\ playlist_songs' = WithoutPlaylist(playlist_songs, playlist_id)
                /\ respond(OK)

\* PlaylistService.delete_playlist
delete_playlist(playlist_id, owner_id) ==
    LET found == SelectPlaylist(playlist_id)
        respond(result) ==
            last' = PlaylistResponse("delete_playlist", owner_id, playlist_id, None,
                                     result, None)
    IN  /\ pre' = PlaylistSnapshot
        /\ UNCHANGED <<authVars, users, songs, queue>>
        /\ IF found = {}
           THEN /\ respond(PlaylistNotFound)
                /\ UNCHANGED <<playlists, collaborations, playlist_songs, activities>>
           ELSE IF \E p \in found : p.owner # owner_id
           THEN /\ respond(ForbiddenError)
                /\ UNCHANGED <<playlists, collaborations, playlist_songs, activities>>
           ELSE /\ playlists' = playlists \ found
                /\ collaborations' = WithoutPlaylist(collaborations, playlist_id)
                /\ playlist_songs' = WithoutPlaylist(playlist_songs, playlist_id)
                /\ activities' = SelectSeq(activities,
                                           LAMBDA a : a.playlist_id # playlist_id)
                /\ respond(OK)

\* PlaylistService.add_song_to_playlist
add_song_to_playlist(playlist_id, song_id, owner_id) ==
    LET access == verify_playlist_access(playlist_id, owner_id)
        respond(result) ==
            last' = PlaylistResponse("add_song_to_playlist", owner_id, playlist_id,
                                     song_id, result, None)
    IN  /\ pre' = PlaylistSnapshot
        /\ UNCHANGED <<authVars, users, playlists, collaborations, songs, queue>>
        /\ IF access # OK
           THEN /\ respond(access)
                /\ UNCHANGED <<playlist_songs, activities>>
           ELSE IF song_id \notin songs
           THEN /\ respond(SongNotFound)
                /\ UNCHANGED <<playlist_songs, activities>>
           ELSE /\ Len(activities) < MaxActivities
                /\ playlist_songs' = playlist_songs \cup
                       {[id |-> NewRowId(playlist_songs), playlist_id |-> playlist_id,
                         song_id |-> song_id]}
                /\ activities' = Append(activities,
                       [playlist_id |-> playlist_id, user_id |-> owner_id,
                        song_id |-> song_id, action |-> "add", time |-> now])
                /\ respond(OK)

\* PlaylistService.get_playlist_with_songs
get_playlist_with_songs(playlist_id, owner_id) ==
    LET found == {p \in playlists :
                     p.id = playlist_id /\ \E u \in users : u.id = p.owner}
        respond(result, data) ==
            last' = PlaylistResponse("get_playlist_with_songs", owner_id, playlist_id,
                                     None, result, data)
    IN  /\ pre' = PlaylistSnapshot
        /\ UNCHANGED <<authVars, users, playlistVars>>
        /\ IF found = {}
           THEN respond(PlaylistNotFound, None)
           ELSE IF /\ \E p \in found : p.owner # owner_id
                   /\ ~CollaborationExists(playlist_id, owner_id)
           THEN respond(ForbiddenError, None)
           ELSE respond(OK, PlaylistSongIds(playlist_id))

\* PlaylistService.delete_song_from_playlist
delete_song_from_playlist(playlist_id, song_id, owner_id) ==
    LET access == verify_playlist_access(playlist_id, owner_id)
        respond(result) ==
            last' = PlaylistResponse("delete_song_from_playlist", owner_id, playlist_id,
                                     song_id, result, None)
    IN  /\ pre' = PlaylistSnapshot
        /\ UNCHANGED <<authVars, users, playlists, collaborations, songs, queue>>
        /\ IF access # OK
           THEN /\ respond(access)
                /\ UNCHANGED <<playlist_songs, activities>>
           ELSE /\ Len(activities) < MaxActivities
                /\ playlist_songs' =
                       {r \in playlist_songs :
                           ~(r.playlist_id = playlist_id /\ r.song_id = song_id)}
                /\ activities' = Append(activities,
                       [playlist_id |-> playlist_id, user_id |-> owner_id,
                        song_id |-> song_id, action |-> "delete", time |-> now])
                /\ respond(OK)

\* the entry get_playlist_activities builds from one result row; a catalog
\* row is identified by its id, which stands for its title here
ActivityEntry(a) ==
    [username |-> (CHOOSE u \in users : u.id = a.user_id).username,
     title |-> a.song_id, action |-> a.action, time |-> a.time]

\* PlaylistService.get_playlist_activities
get_playlist_activities(playlist_id, owner_id) ==
    LET found == SelectPlaylist(playlist_id)
        \* JOIN User, JOIN Song (inner joins), WHERE playlist_id, ORDER BY time
        joined == SelectSeq(activities,
                      LAMBDA a : /\ a.playlist_id = playlist_id
                                 /\ \E u \in users : u.id = a.user_id
                                 /\ a.song_id \in songs)
        entries == [i \in 1..Len(joined) |-> ActivityEntry(joined[i])]
        respond(result, data) ==
            last' = PlaylistResponse("get_playlist_activities", owner_id, playlist_id,
                                     None, result, data)
    IN  /\ pre' = PlaylistSnapshot
        /\ UNCHANGED <<authVars, users, playlistVars>>
        /\ IF found = {}
           THEN respond(PlaylistNotFound, None)
           ELSE IF \E p \in found : p.owner # owner_id
           THEN respond(ForbiddenError, None)
           ELSE respond(OK, entries)

\* CollaborationService.add_collaboration
add_collaboration(playlist_id, user_id, owner_id) ==
    LET found == SelectPlaylist(playlist_id)
        existing == {c \in collaborations :
                        c.playlist_id = playlist_id /\ c.user_id = user_id}
        respond(result, data) ==
            last' = PlaylistResponse("add_collaboration", owner_id, playlist_id,
                                     user_id, result, data)
    IN  /\ pre' = PlaylistSnapshot
        /\ UNCHANGED <<authVars, users, playlists, songs, playlist_songs, activities,
                       queue>>
        /\ IF found = {}
           THEN respond(PlaylistNotFound, None) /\ UNCHANGED collaborations
           ELSE IF \E p \in found : p.owner # owner_id
           THEN respond(ForbiddenError, None) /\ UNCHANGED collaborations
           ELSE IF ~\E u \in users : u.id = user_id
           THEN respond(UserNotFound, None) /\ UNCHANGED collaborations
           ELSE IF existing # {}
           THEN \* result_collab.scalar_one_or_none() has fetched the row and closed
                \* the result; the following result_collab.scalar_one() raises
                \* (ResourceClosedError), which no handler maps: 500
                respond(InternalServerError, None) /\ UNCHANGED collaborations
           ELSE \E id \in CollaborationIds :
                    /\ \A c \in collaborations : c.id # id
                    /\ collaborations' = collaborations \cup
                           {[id |-> id, playlist_id |-> playlist_id, user_id |-> user_id]}
                    /\ respond(OK, id)

\* CollaborationService.delete_collaboration
delete_collaboration(playlist_id, user_id, owner_id) ==
    LET found == SelectPlaylist(playlist_id)
        respond(result) ==
            last' = PlaylistResponse("delete_collaboration", owner_id, playlist_id,
                                     user_id, result, None)
    IN  /\ pre' = PlaylistSnapshot
        /\ UNCHANGED <<authVars, users, playlists, songs, playlist_songs, activities,
                       queue>>
        /\ IF found = {}
           THEN respond(PlaylistNotFound) /\ UNCHANGED collaborations
           ELSE IF \E p \in found : p.owner # owner_id
           THEN respond(ForbiddenError) /\ UNCHANGED collaborations
           ELSE /\ collaborations' =
                       {c \in collaborations :
                           ~(c.playlist_id = playlist_id /\ c.user_id = user_id)}
                /\ respond(OK)

\* playlist_service.get_playlist_by_id, as exports.export_playlist calls it:
\* class PlaylistService defines no such attribute, so the call raises
get_playlist_by_id(playlist_id) == AttributeError

\* aio_pika.Message(body=..., content_type=...): no delivery_mode is passed,
\* and aio_pika's default is DeliveryMode.NOT_PERSISTENT
NOT_PERSISTENT == "DeliveryMode.NOT_PERSISTENT"
PERSISTENT == "DeliveryMode.PERSISTENT"
Message(body) == [body |-> body, delivery_mode |-> NOT_PERSISTENT]

\* ProducerService.send_message: the durable queue after the publish
send_message(queue_name, message) == Append(queue, Message(message))

\* exports.export_playlist
export_playlist(playlistId, targetEmail, current_user) ==
    LET playlist == get_playlist_by_id(playlistId)
        respond(result) ==
            last' = PlaylistResponse("export_playlist", current_user, playlistId,
                                     targetEmail, result, None)
    IN  /\ pre' = PlaylistSnapshot
        /\ UNCHANGED <<authVars, users, playlists, collaborations, songs,
                       playlist_songs, activities>>
        /\ IF playlist = AttributeError
           THEN respond(InternalServerError) /\ UNCHANGED queue
           ELSE IF playlist = None
           THEN respond(PlaylistNotFound) /\ UNCHANGED queue
           ELSE IF playlist.owner # current_user
           THEN respond(ForbiddenError) /\ UNCHANGED queue
           ELSE /\ queue' = send_message("export:playlist",
                                [playlistId |-> playlistId, targetEmail |-> targetEmail])
                /\ respond(OK)

\* SongService.create_song
create_song ==
    \E id \in SongIds :
        /\ id \notin songs
        /\ pre' = PlaylistSnapshot
        /\ songs' = songs \cup {id}
        /\ last' = PlaylistResponse("create_song", None, None, id, OK, id)
        /\ UNCHANGED <<authVars, users, playlists, collaborations, playlist_songs,
                       activities, queue>>

\* SongService.update_song: the row's title, year, genre, performer, duration
\* or album change; its id, all the other tables refer to, does not
update_song(song_id) ==
    /\ pre' = PlaylistSnapshot
    /\ UNCHANGED <<authVars, users, playlistVars>>
    /\ last' = PlaylistResponse("update_song", None, None, song_id,
                                IF song_id \notin songs THEN SongNotFound ELSE OK, None)

\* [variant] deleting a song also deletes the activity rows that name it
delete_song_with_activities(song_id) ==
    /\ pre' = PlaylistSnapshot
    /\ UNCHANGED <<authVars, users, playlists, collaborations, queue>>
    /\ IF song_id \notin songs
       THEN /\ last' = PlaylistResponse("delete_song", None, None, song_id,
                                        SongNotFound, None)
            /\ UNCHANGED <<songs, playlist_songs, activities>>
       ELSE /\ songs' = songs \ {song_id}
            /\ playlist_songs' = {r \in playlist_songs : r.song_id # song_id}
            /\ activities' = SelectSeq(activities, LAMBDA a : a.song_id # song_id)
            /\ last' = PlaylistResponse("delete_song", None, None, song_id, OK, None)

\* SongService.delete_song
delete_song(song_id) ==
    /\ pre' = PlaylistSnapshot
    /\ UNCHANGED <<authVars, users, playlists, collaborations, activities, queue>>
    /\ IF song_id \notin songs
       THEN /\ last' = PlaylistResponse("delete_song", None, None, song_id,
                                        SongNotFound, None)
            /\ UNCHANGED <<songs, playlist_songs>>
       ELSE /\ songs' = songs \ {song_id}
            /\ playlist_songs' = {r \in playlist_songs : r.song_id # song_id}
            /\ last' = PlaylistResponse("delete_song", None, None, song_id, OK, None)

----------------------------------------------------------------------------
\* the request tasks that can be in flight at once, and a task not started
Requests == {"task-1", "task-2"}
NoRequest ==
    [pc |-> "idle", op |-> None, token |-> NoToken, overlaps |-> {}, result |-> None,
     refreshToken |-> NoToken]

\* no request is being served
Idle == [op |-> "idle"]

\* the response of the request just served is delivered
Respond ==
    /\ last # Idle
    /\ last' = Idle
    /\ pre' = Idle
    /\ UNCHANGED <<authVars, users, playlistVars, extVars>>

Init ==
    /\ now = 0
    /\ settings \in [ACCESS_TOKEN_KEY : {"key-a"}, REFRESH_TOKEN_KEY : SigningKeys]
    /\ users = RegisteredUsers
    /\ authentications = {}
    /\ issued = {}
    /\ consumed = {}
    /\ playlists = {}
    /\ collaborations = {}
    /\ songs = {}
    /\ playlist_songs = {}
    /\ activities = <<>>
    /\ queue = <<>>
    /\ last = Idle
    /\ pre = Idle
    /\ restarts = 0
    /\ delivered = <<>>
    /\ unacked = <<>>
    /\ crashes = 0
    /\ albums = {}
    /\ likes = {}
    /\ cache = {}
    /\ cache_up = TRUE
    /\ fresh = {}
    /\ unliked = {}
    /\ requests = [r \in Requests |-> NoRequest]

Login == last = Idle /\ UNCHANGED extVars /\ \E username \in Usernames, password \in Passwords :
            /\ Cardinality(IssuedRefresh) < MaxIssued
            /\ login(username, password)
RefreshToken == last = Idle /\ UNCHANGED extVars /\ \E token \in PresentableTokens :
            /\ Cardinality(IssuedRefresh) < MaxIssued
            /\ refresh_token(token)
Logout == last = Idle /\ UNCHANGED extVars /\ \E token \in PresentableTokens : logout(token)
GetCurrentUser == last = Idle /\ UNCHANGED extVars /\ \E token \in PresentableTokens : get_current_user(token)
ClockTick == last = Idle /\ UNCHANGED extVars /\ \E d \in {1, AccessTtl, RefreshTtl} : Tick(d)

NextAuth == Login \/ RefreshToken \/ Logout \/ GetCurrentUser \/ ClockTick \/ Respond

SpecAuth == Init /\ [][NextAuth]_vars

CreatePlaylist == last = Idle /\ UNCHANGED extVars /\ \E name \in PlaylistNames, u \in RequesterIds : create_playlist(name, u)
DeletePlaylist == last = Idle /\ UNCHANGED extVars /\ \E p \in PlaylistIds, u \in RequesterIds : delete_playlist(p, u)
AddSongToPlaylist == last = Idle /\ UNCHANGED extVars /\ \E p \in PlaylistIds, s \in SongIds, u \in RequesterIds :
                        add_song_to_playlist(p, s, u)
GetPlaylistWithSongs == last = Idle /\ UNCHANGED extVars /\ \E p \in PlaylistIds, u \in RequesterIds :
                        get_playlist_with_songs(p, u)
DeleteSongFromPlaylist == last = Idle /\ UNCHANGED extVars /\ \E p \in PlaylistIds, s \in SongIds, u \in RequesterIds :
                        delete_song_from_playlist(p, s, u)
GetPlaylists == last = Idle /\ UNCHANGED extVars /\ \E u \in RequesterIds : get_playlists(u)
GetPlaylistActivities == last = Idle /\ UNCHANGED extVars /\ \E p \in PlaylistIds, u \in RequesterIds :
                        get_playlist_activities(p, u)
AddCollaboration == last = Idle /\ UNCHANGED extVars /\ \E p \in PlaylistIds, t \in UserIds, u \in RequesterIds :
                        add_collaboration(p, t, u)
DeleteCollaboration == last = Idle /\ UNCHANGED extVars /\ \E p \in PlaylistIds, t \in UserIds, u \in RequesterIds :
                        delete_collaboration(p, t, u)
ExportPlaylist == last = Idle /\ UNCHANGED extVars /\ \E p \in PlaylistIds, e \in Emails, u \in RequesterIds :
                        export_playlist(p, e, u)
CreateSong == last = Idle /\ UNCHANGED extVars /\ create_song
DeleteSong == last = Idle /\ UNCHANGED extVars /\ \E s \in SongIds : delete_song(s)
UpdateSong == last = Idle /\ UNCHANGED extVars /\ \E s \in SongIds : update_song(s)

NextPlaylist ==
    \/ CreatePlaylist \/ DeletePlaylist
    \/ AddSongToPlaylist \/ DeleteSongFromPlaylist \/ GetPlaylistWithSongs
    \/ GetPlaylistActivities \/ GetPlaylists
    \/ AddCollaboration \/ DeleteCollaboration
    \/ ExportPlaylist
    \/ CreateSong \/ DeleteSong \/ UpdateSong
    \/ Respond

InitPlaylist == Init /\ settings.REFRESH_TOKEN_KEY # settings.ACCESS_TOKEN_KEY

SpecPlaylist == InitPlaylist /\ [][NextPlaylist]_vars

----------------------------------------------------------------------------
(* Export queue: producer, broker and consumer *)

\* messages published
MaxMessages == 2
\* broker restarts
MaxRestarts == 2

\* ProducerService.send_message is called with an export request
SendMessage ==
    /\ last = Idle
    /\ Len(queue) + Len(unacked) + Len(delivered) < MaxMessages
    /\ \E playlistId \in PlaylistIds, targetEmail \in Emails :
          queue' = send_message("export:playlist",
                       [playlistId |-> playlistId, targetEmail |-> targetEmail])
    /\ UNCHANGED <<authVars, users, playlists, collaborations, songs, playlist_songs,
                   activities, last, pre, brokerVars, likeVars, raceVars>>

\* the broker stops and starts again: a durable queue is declared again with
\* the messages that were published as persistent; transient messages are gone
BrokerRestart ==
    /\ last = Idle
    /\ restarts < MaxRestarts
    /\ restarts' = restarts + 1
    /\ queue' = SelectSeq(queue, LAMBDA m : m.delivery_mode = PERSISTENT)
    /\ UNCHANGED <<authVars, users, playlists, collaborations, songs, playlist_songs,
                   activities, last, pre, delivered, unacked, crashes, likeVars,
                   raceVars>>

\* Consumer.process_message: the head of the queue is delivered, processed
\* and acknowledged (also when the playlist is gone and no mail is sent)
process_message ==
    /\ last = Idle
    /\ queue # <<>>
    /\ LET message == Head(queue)
           found == SelectPlaylist(message.body.playlistId)
       IN  delivered' = Append(delivered,
               [body |-> message.body,
                outcome |-> IF found = {} THEN "ValueError" ELSE "mail sent"])
    /\ queue' = Tail(queue)
    /\ UNCHANGED <<authVars, users, playlists, collaborations, songs, playlist_songs,
                   activities, last, pre, restarts, unacked, crashes, likeVars,
                   raceVars>>

NextBroker ==
    \/ SendMessage \/ BrokerRestart \/ process_message
    \/ CreatePlaylist \/ DeletePlaylist \/ Respond

SpecBroker == InitPlaylist /\ [][NextBroker]_vars

----------------------------------------------------------------------------
(* Export consumer, one message handler per delivery, step by step *)

\* times the consumer process dies
MaxCrashes == 1

\* bodies that are not an export request: not JSON at all, and JSON with a
\* field missing
MalformedBodies == {[raw |-> "{"], [playlistId |-> "playlist-1"]}

\* what a handler can end with
JSONDecodeError == "json.JSONDecodeError"
KeyError == "KeyError"
SQLAlchemyError == "SQLAlchemyError"
MailError == "Exception"
Failures == {JSONDecodeError, KeyError, "ValueError", SQLAlchemyError, MailError}

\* json.loads(message.body.decode()), payload["playlistId"] and
\* payload["targetEmail"]: the exception raised, None when there is none
loads(body) ==
    IF "raw" \in DOMAIN body THEN JSONDecodeError
    ELSE IF ~({"playlistId", "targetEmail"} \subseteq DOMAIN body) THEN KeyError
    ELSE None

\* the sequence without its i-th element
Without(seq, i) == SubSeq(seq, 1, i - 1) \o SubSeq(seq, i + 1, Len(seq))

\* the handler of one delivery: where it stands and what it has logged
Handler(message, pc, outcome, acked) ==
    [message |-> message, pc |-> pc, outcome |-> outcome, acked |-> acked]

\* what the broker does with a message whose consumer is gone: back in the
\* queue, flagged as redelivered
Requeued(message) ==
    [body |-> message.body, delivery_mode |-> message.delivery_mode,
     redelivered |-> TRUE]

\* a publisher other than the API puts a message in the queue
publish_malformed ==
    /\ last = Idle
    /\ Len(queue) + Len(unacked) + Len(delivered) < MaxMessages
    /\ \E body \in MalformedBodies : queue' = Append(queue, Message(body))
    /\ UNCHANGED <<authVars, users, playlists, collaborations, songs, playlist_songs,
                   activities, last, pre, brokerVars, likeVars, raceVars>>

\* [variant] queue.consume(self.process_message, no_ack=True): the broker
\* takes a message as acknowledged the moment it delivers it
deliver_no_ack ==
    /\ last = Idle
    /\ queue # <<>>
    /\ LET message == Head(queue)
           raised == loads(message.body)
       IN  unacked' = Append(unacked,
               IF raised # None THEN Handler(message, "ack", raised, TRUE)
               ELSE Handler(message, "get_playlist_data", None, TRUE))
    /\ queue' = Tail(queue)
    /\ UNCHANGED <<authVars, users, playlists, collaborations, songs, playlist_songs,
                   activities, last, pre, restarts, delivered, crashes, likeVars,
                   raceVars>>

\* queue.consume(self.process_message): the broker delivers the head of the
\* queue, process_message enters message.process() and runs up to its first
\* await: the body is parsed, a body that does not parse is logged
deliver ==
    /\ last = Idle
    /\ queue # <<>>
    /\ LET message == Head(queue)
           raised == loads(message.body)
       IN  unacked' = Append(unacked,
               IF raised # None THEN Handler(message, "ack", raised, FALSE)
               ELSE Handler(message, "get_playlist_data", None, FALSE))
    /\ queue' = Tail(queue)
    /\ UNCHANGED <<authVars, users, playlists, collaborations, songs, playlist_songs,
                   activities, last, pre, restarts, delivered, crashes, likeVars,
                   raceVars>>

\* Consumer.get_playlist_data: the playlist is read; ValueError when it is
\* gone, SQLAlchemyError when the store fails; process_message logs either
get_playlist_data(i) ==
    /\ last = Idle
    /\ unacked[i].pc = "get_playlist_data"
    /\ \E store_up \in BOOLEAN :
          LET found == SelectPlaylist(unacked[i].message.body.playlistId)
          IN  unacked' = [unacked EXCEPT ![i] =
                  IF ~store_up THEN [@ EXCEPT !.pc = "ack", !.outcome = SQLAlchemyError]
                  ELSE IF found = {} THEN [@ EXCEPT !.pc = "ack", !.outcome = "ValueError"]
                  ELSE [@ EXCEPT !.pc = "send_email"]]
    /\ UNCHANGED <<authVars, users, playlistVars, last, pre, restarts, delivered,
                   crashes, likeVars, raceVars>>

\* mail_service.send_email: the mail goes out or the send raises;
\* process_message logs either
send_email(i) ==
    /\ last = Idle
    /\ unacked[i].pc = "send_email"
    /\ \E mail_up \in BOOLEAN :
          unacked' = [unacked EXCEPT ![i] =
              [@ EXCEPT !.pc = "ack",
                        !.outcome = IF mail_up THEN "mail sent" ELSE MailError]]
    /\ UNCHANGED <<authVars, users, playlistVars, last, pre, restarts, delivered,
                   crashes, likeVars, raceVars>>

\* [variant] async with message.process(requeue=True) around a handler that
\* lets its exception through: a failed message goes back to the queue
ack_or_requeue(i) ==
    /\ last = Idle
    /\ unacked[i].pc = "ack"
    /\ unacked' = Without(unacked, i)
    /\ IF unacked[i].outcome \in Failures
       THEN /\ queue' = Append(queue, Requeued(unacked[i].message))
            /\ UNCHANGED delivered
       ELSE /\ delivered' = Append(delivered,
                   [body |-> unacked[i].message.body, outcome |-> unacked[i].outcome])
            /\ UNCHANGED queue
    /\ UNCHANGED <<authVars, users, playlists, collaborations, songs, playlist_songs,
                   activities, last, pre, restarts, crashes, likeVars, raceVars>>

\* message.process() exits: the handler has returned, with every exception
\* caught, and the message is acknowledged
ack(i) ==
    /\ last = Idle
    /\ unacked[i].pc = "ack"
    /\ unacked' = Without(unacked, i)
    /\ delivered' = Append(delivered,
           [body |-> unacked[i].message.body, outcome |-> unacked[i].outcome])
    /\ UNCHANGED <<authVars, users, playlistVars, last, pre, restarts, crashes,
                   likeVars, raceVars>>

\* the consumer process dies and is started again: the broker puts every
\* message it holds no acknowledgement for back in the queue, ahead of the
\* messages that were never delivered
crash ==
    /\ last = Idle
    /\ crashes < MaxCrashes
    /\ crashes' = crashes + 1
    /\ LET held == SelectSeq(unacked, LAMBDA h : ~h.acked)
       IN  queue' = [i \in DOMAIN held |-> Requeued(held[i].message)] \o queue
    /\ unacked' = <<>>
    /\ UNCHANGED <<authVars, users, playlists, collaborations, songs, playlist_songs,
                   activities, last, pre, restarts, delivered, likeVars, raceVars>>

Deliver == deliver
GetPlaylistData == \E i \in DOMAIN unacked : get_playlist_data(i)
SendEmail == \E i \in DOMAIN unacked : send_email(i)
Ack == \E i \in DOMAIN unacked : ack(i)

\* the playlist an export is asked for was created before the request
PlaylistToExport ==
    /\ playlists = {} /\ queue = <<>> /\ unacked = <<>> /\ delivered = <<>>
    /\ CreatePlaylist

\* exports.export_playlist publishes for a playlist it has found
PublishExport ==
    /\ SendMessage
    /\ \E p \in playlists : queue'[Len(queue')].body.playlistId = p.id

\* its owner deletes the playlist, whatever has been published about it
PlaylistDeleted == DeletePlaylist /\ playlists' # playlists

NextWorker ==
    \/ PublishExport \/ publish_malformed
    \/ Deliver \/ GetPlaylistData \/ SendEmail \/ Ack \/ crash
    \/ PlaylistToExport \/ PlaylistDeleted \/ Respond

SpecWorker == InitPlaylist /\ [][NextWorker]_vars

\* a response is delivered; the broker delivers what the queue holds to the
\* subscribed consumer (queue.consume, then await asyncio.Future() for ever)
\* and the event loop resumes every handler that can go on
LiveWorker ==
    /\ SpecWorker
    /\ WF_vars(Respond)
    /\ WF_vars(Deliver) /\ WF_vars(GetPlaylistData) /\ WF_vars(SendEmail)
    /\ WF_vars(Ack)

----------------------------------------------------------------------------
(* Album likes and their cache *)

\* album_likes.CACHE_TTL, seconds
CACHE_TTL == 1800

AlbumIds == {"album-1", "album-2"}
AlbumNotFound == "NotFoundError:404 Album not found"
RedisError == "redis.RedisError"

\* str(count) and int(cached_count) for the counts the store can hold
Digits == <<"0", "1", "2", "3">>
str(n) == Digits[n + 1]
int(x) == CHOOSE n \in 0..(Len(Digits) - 1) : Digits[n + 1] = x

\* album_likes.get_likes_cache_key: f"likes:{album_id}"
get_likes_cache_key(album_id) == <<"likes", album_id>>

\* the entry Redis holds for a key: none once its TTL has run out
LiveEntries(entries, key, time) ==
    {e \in entries : e.key = key /\ e.expires_at > time}

\* [variant] CacheService.get without the except clause: the error propagates
cache_get_unguarded(key) ==
    IF ~cache_up THEN RedisError
    ELSE IF LiveEntries(cache, key, now) = {} THEN None
    ELSE (CHOOSE e \in LiveEntries(cache, key, now) : TRUE).value

\* CacheService.get: the value, or None (also when Redis raises)
cache_get(key) ==
    IF ~cache_up THEN None
    ELSE IF LiveEntries(cache, key, now) = {} THEN None
    ELSE (CHOOSE e \in LiveEntries(cache, key, now) : TRUE).value

\* CacheService.set: the keys afterwards (unchanged when Redis raises)
cache_set(key, value, expiration) ==
    IF ~cache_up THEN cache
    ELSE {e \in cache : e.key # key} \cup
         {[key |-> key, value |-> value, expires_at |-> now + expiration]}

\* CacheService.delete: the keys afterwards (unchanged when Redis raises)
cache_delete(key) ==
    IF ~cache_up THEN cache ELSE {e \in cache : e.key # key}

LikesSnapshot ==
    [now |-> now, albums |-> albums, likes |-> likes, cache |-> cache,
     cache_up |-> cache_up, fresh |-> fresh, unliked |-> unliked]

LikesResponse(op, current_user, id, result, count, source, store_queried) ==
    [op |-> op, current_user |-> current_user, id |-> id, result |-> result,
     likes |-> count, source |-> source, store_queried |-> store_queried]

\* select(UserAlbumLike).where(user_id == .., album_id == ..): the rows found
SelectLike(rows, user_id, album_id) ==
    {l \in rows : l.user_id = user_id /\ l.album_id = album_id}

\* UserAlbumLike(user_id=.., album_id=..) with a generated primary key the
\* table does not hold yet: the rows of a pair are numbered as they come
NewLike(user_id, album_id) ==
    [id |-> <<"like", user_id, album_id,
              Cardinality(SelectLike(likes, user_id, album_id)) + 1>>,
     user_id |-> user_id, album_id |-> album_id]

\* [variant] LikeService.add_like without the already-liked check
add_like_unchecked(user_id, album_id) ==
    IF album_id \notin albums THEN AlbumNotFound ELSE OK

\* LikeService.add_like: OK (the row is inserted), or the error raised
add_like(user_id, album_id) ==
    IF album_id \notin albums THEN AlbumNotFound
    ELSE IF SelectLike(likes, user_id, album_id) # {}
    THEN ValidationError
    ELSE OK

\* LikeService.remove_like: the rows afterwards
remove_like(user_id, album_id) ==
    likes \ SelectLike(likes, user_id, album_id)

\* LikeService.get_likes_count
get_likes_count(album_id) == Cardinality({l \in likes : l.album_id = album_id})

\* [variant] like_album without the cache invalidation
like_album_keeps_cache(current_user, id) ==
    LET result == add_like(current_user, id)
    IN  /\ pre' = LikesSnapshot
        /\ last' = LikesResponse("like_album", current_user, id, result, None, None,
                                 TRUE)
        /\ likes' = IF result = OK
                    THEN likes \cup {NewLike(current_user, id)}
                    ELSE likes
        /\ fresh' = IF result = OK /\ cache_up THEN fresh \cup {id} ELSE fresh
        /\ unliked' = IF result = OK
                      THEN unliked \ {[user_id |-> current_user, album_id |-> id]}
                      ELSE unliked
        /\ UNCHANGED <<authVars, users, playlistVars, brokerVars, raceVars, albums, cache,
                       cache_up>>

\* album_likes.like_album
like_album(current_user, id) ==
    LET result == add_like(current_user, id)
    IN  /\ pre' = LikesSnapshot
        /\ last' = LikesResponse("like_album", current_user, id, result, None, None,
                                 TRUE)
        /\ likes' = IF result = OK
                    THEN likes \cup {NewLike(current_user, id)}
                    ELSE likes
        /\ cache' = IF result = OK THEN cache_delete(get_likes_cache_key(id)) ELSE cache
        /\ fresh' = IF result = OK /\ cache_up THEN fresh \cup {id} ELSE fresh
        /\ unliked' = IF result = OK
                      THEN unliked \ {[user_id |-> current_user, album_id |-> id]}
                      ELSE unliked
        /\ UNCHANGED <<authVars, users, playlistVars, brokerVars, raceVars, albums, cache_up>>

\* album_likes.unlike_album
unlike_album(current_user, id) ==
    LET row == [user_id |-> current_user, album_id |-> id]
    IN  /\ pre' = LikesSnapshot
        /\ last' = LikesResponse("unlike_album", current_user, id, OK, None, None,
                                 TRUE)
        /\ likes' = remove_like(current_user, id)
        /\ cache' = cache_delete(get_likes_cache_key(id))
        /\ fresh' = IF cache_up THEN fresh \cup {id} ELSE fresh
        /\ unliked' = IF SelectLike(likes, current_user, id) # {}
                      THEN unliked \cup {row}
                      ELSE unliked
        /\ UNCHANGED <<authVars, users, playlistVars, brokerVars, raceVars, albums, cache_up>>

\* [variant] get_album_likes that never consults the cache
get_album_likes_uncached(id) ==
    LET count == get_likes_count(id)
    IN  /\ pre' = LikesSnapshot
        /\ last' = LikesResponse("get_album_likes", None, id, OK, count, None, TRUE)
        /\ cache' = cache_set(get_likes_cache_key(id), str(count), CACHE_TTL)
        /\ fresh' = fresh \ {id}
        /\ UNCHANGED <<authVars, users, playlistVars, brokerVars, raceVars, albums, likes,
                       cache_up, unliked>>

\* album_likes.get_album_likes
get_album_likes(id) ==
    LET cache_key == get_likes_cache_key(id)
        cached_count == cache_get(cache_key)
        count == get_likes_count(id)
    IN  /\ pre' = LikesSnapshot
        /\ fresh' = fresh \ {id}
        /\ UNCHANGED <<authVars, users, playlistVars, brokerVars, raceVars, albums, likes,
                       cache_up, unliked>>
        /\ IF cached_count = RedisError
           THEN \* an error the cache service let through reaches the global handler
                /\ last' = LikesResponse("get_album_likes", None, id,
                                         InternalServerError, None, None, FALSE)
                /\ UNCHANGED cache
           ELSE IF cached_count # None
           THEN /\ last' = LikesResponse("get_album_likes", None, id, OK,
                                         int(cached_count), "cache", FALSE)
                /\ UNCHANGED cache
           ELSE /\ last' = LikesResponse("get_album_likes", None, id, OK, count, None,
                                         TRUE)
                /\ cache' = cache_set(cache_key, str(count), CACHE_TTL)

\* AlbumService.create_album
create_album ==
    \E id \in AlbumIds :
        /\ id \notin albums
        /\ albums' = albums \cup {id}
        /\ pre' = LikesSnapshot
        /\ last' = LikesResponse("create_album", None, id, OK, None, None, TRUE)
        /\ UNCHANGED <<authVars, users, playlistVars, brokerVars, raceVars, likes, cache,
                       cache_up, fresh, unliked>>

\* Redis stops answering, or answers again
CacheDown ==
    /\ last = Idle /\ cache_up /\ cache_up' = FALSE
    /\ UNCHANGED <<authVars, users, playlistVars, brokerVars, raceVars, albums, likes, cache,
                   fresh, unliked, last, pre>>
CacheUp ==
    /\ last = Idle /\ ~cache_up /\ cache_up' = TRUE
    /\ UNCHANGED <<authVars, users, playlistVars, brokerVars, raceVars, albums, likes, cache,
                   fresh, unliked, last, pre>>

LikeAlbum == last = Idle /\ \E u \in RequesterIds, id \in AlbumIds : like_album(u, id)
UnlikeAlbum == last = Idle /\ \E u \in RequesterIds, id \in AlbumIds : unlike_album(u, id)
GetAlbumLikes == last = Idle /\ \E id \in AlbumIds : get_album_likes(id)
CreateAlbum == last = Idle /\ create_album
\* time passes: a second, or a whole TTL; Redis drops the keys that expire
CacheClockTick ==
    /\ last = Idle
    /\ \E d \in {1, CACHE_TTL} : Tick(d)
    /\ cache' = {e \in cache : e.expires_at > now'}
    /\ UNCHANGED <<brokerVars, raceVars, albums, likes, cache_up, fresh, unliked>>

NextLikes ==
    \/ LikeAlbum \/ UnlikeAlbum \/ GetAlbumLikes \/ CreateAlbum
    \/ CacheDown \/ CacheUp \/ CacheClockTick \/ Respond

SpecLikes == InitPlaylist /\ [][NextLikes]_vars

----------------------------------------------------------------------------
(* Token service, concurrent requests: every await on the session (execute, *)
(* commit) is a point where another request's task can run.  The store     *)
(* runs each statement on the rows committed so far (READ COMMITTED).      *)

InFlight == {r \in Requests : requests[r].pc \in {"select", "delete", "insert"}}

\* PUT or DELETE /authentications arrives with a live refresh token
begin(r) ==
    /\ last = Idle
    /\ requests[r].pc = "idle"
    /\ \E op \in {"refresh_token", "logout"}, token \in authentications :
          requests' = [requests EXCEPT ![r] =
              [NoRequest EXCEPT !.pc = "select", !.op = op, !.token = token]]
    /\ UNCHANGED <<authVars, users, playlistVars, brokerVars, likeVars, last, pre>>

\* refresh_token / logout: select(Authentication).where(token == ..), and
\* the ValidationError when no row is found
select_token(r) ==
    LET req == requests[r]
    IN  /\ req.pc = "select"
        /\ requests' = [requests EXCEPT ![r] =
              IF req.token \in authentications
              THEN [req EXCEPT !.pc = "delete", !.overlaps = InFlight \ {r}]
              ELSE [req EXCEPT !.pc = "done", !.result = ValidationError,
                               !.overlaps = InFlight \ {r}]]
        /\ UNCHANGED <<authVars, users, playlistVars, brokerVars, likeVars, last, pre>>

\* refresh_token / logout: db.delete(stored_token); db.commit().  A DELETE
\* that matches no row any more only draws a warning from the ORM.
delete_token(r) ==
    LET req == requests[r]
    IN  /\ req.pc = "delete"
        /\ authentications' = authentications \ {req.token}
        /\ consumed' = IF req.op = "logout" THEN consumed \cup {req.token} ELSE consumed
        /\ requests' = [requests EXCEPT ![r] =
              IF req.op = "logout"
              THEN [req EXCEPT !.pc = "done", !.result = OK]
              ELSE [req EXCEPT !.pc = "insert"]]
        /\ UNCHANGED <<now, settings, issued, users, playlistVars, brokerVars, likeVars,
                       last, pre>>

\* refresh_token: verify_refresh_token, create both tokens, add and commit
insert_token(r) ==
    LET req == requests[r]
        user_id == verify_refresh_token(req.token)
        new_access_token == create_access_token(user_id)
        new_refresh_token == create_refresh_token(user_id)
    IN  /\ req.pc = "insert"
        /\ UNCHANGED <<now, settings, users, playlistVars, brokerVars, likeVars, last,
                       pre>>
        /\ IF user_id = None
           THEN /\ requests' = [requests EXCEPT ![r] =
                      [req EXCEPT !.pc = "done", !.result = AuthenticationError]]
                /\ UNCHANGED <<authentications, issued, consumed>>
           ELSE IF new_refresh_token \in authentications
           THEN \* INSERT violates the primary key: IntegrityError
                /\ requests' = [requests EXCEPT ![r] =
                      [req EXCEPT !.pc = "done", !.result = InternalServerError]]
                /\ UNCHANGED <<authentications, issued, consumed>>
           ELSE /\ authentications' = authentications \cup {new_refresh_token}
                /\ issued' = issued \cup {new_access_token, new_refresh_token}
                /\ consumed' = consumed \cup {req.token}
                /\ requests' = [requests EXCEPT ![r] =
                      [req EXCEPT !.pc = "done", !.result = OK,
                                  !.refreshToken = new_refresh_token]]

Begin == \E r \in Requests : begin(r)
SelectToken == \E r \in Requests : select_token(r)
DeleteToken == \E r \in Requests : delete_token(r)
InsertToken == \E r \in Requests : insert_token(r)

\* the logins that hand out the tokens, before the concurrent requests arrive
EarlierLogin == (\A r \in Requests : requests[r].pc = "idle") /\ Login

\* time passes while the requests are served: a second, or a token's lifetime
RaceClockTick ==
    /\ \E d \in {1, RefreshTtl} : Tick(d)
    /\ UNCHANGED extVars

NextRace ==
    \/ EarlierLogin \/ Respond \/ RaceClockTick
    \/ Begin \/ SelectToken \/ DeleteToken \/ InsertToken

SpecRace == InitPlaylist /\ [][NextRace]_vars

----------------------------------------------------------------------------
(* Playlist command processor, concurrent requests: each request runs on   *)
(* its own session, and every await on it (execute, commit) is a point     *)
(* where another request can run.  A statement sees the rows committed so  *)
(* far; the rows a request adds become visible, and its constraints are    *)
(* checked against the committed rows, when it flushes and commits.        *)

SongOps == {"add_song_to_playlist", "delete_song_from_playlist"}

\* a request that has arrived; `stood` notes how the requester stood towards
\* the playlist when the request committed
StoreRequest(op, current_user, playlist_id, target) ==
    [pc |-> "verify", op |-> op, current_user |-> current_user,
     playlist_id |-> playlist_id, target |-> target, overlaps |-> {},
     result |-> None, data |-> None, stood |-> None]

Serving == {r \in Requests : requests[r].pc \notin {"idle", "done"}}

\* how user_id stands towards the playlist in the committed rows
Standing(playlist_id, user_id) ==
    IF \E pl \in playlists : pl.id = playlist_id /\ pl.owner = user_id THEN "owner"
    ELSE IF CollaborationExists(playlist_id, user_id) THEN "collaborator"
    ELSE "nobody"

\* POST or DELETE /playlists/{id}/songs arrives.  One such request is
\* followed step by step; the requests that run concurrently with it are
\* served between its steps.
receive_song(r) ==
    /\ last = Idle
    /\ \A q \in Requests : requests[q].pc = "idle"
    /\ \E op \in SongOps, u \in RequesterIds, pl \in playlists, s \in SongIds :
          requests' = [requests EXCEPT ![r] = StoreRequest(op, u, pl.id, s)]
    /\ UNCHANGED <<authVars, users, playlistVars, brokerVars, likeVars, last, pre>>

\* POST /collaborations arrives from the playlist's owner
receive_collaboration(r) ==
    /\ last = Idle
    /\ requests[r].pc = "idle"
    /\ \E pl \in playlists, t \in RequesterIds :
          requests' = [requests EXCEPT ![r] =
                          StoreRequest("add_collaboration", pl.owner, pl.id, t)]
    /\ UNCHANGED <<authVars, users, playlistVars, brokerVars, likeVars, last, pre>>

\* add_song_to_playlist / delete_song_from_playlist: verify_playlist_access
verify_access(r) ==
    LET req == requests[r]
        access == verify_playlist_access(req.playlist_id, req.current_user)
    IN  /\ last = Idle
        /\ req.pc = "verify"
        /\ req.op \in SongOps
        /\ requests' = [requests EXCEPT ![r] =
              IF access # OK
              THEN [req EXCEPT !.pc = "done", !.result = access,
                               !.overlaps = Serving \ {r}]
              ELSE [req EXCEPT !.pc = IF req.op = "add_song_to_playlist"
                                      THEN "song" ELSE "commit",
                               !.overlaps = Serving \ {r}]]
        /\ UNCHANGED <<authVars, users, playlistVars, brokerVars, likeVars, last, pre>>

\* add_song_to_playlist: select(Song).where(Song.id == song_id)
select_song(r) ==
    LET req == requests[r]
    IN  /\ last = Idle
        /\ req.pc = "song"
        /\ requests' = [requests EXCEPT ![r] =
              IF req.target \in songs
              THEN [req EXCEPT !.pc = "commit"]
              ELSE [req EXCEPT !.pc = "done", !.result = SongNotFound]]
        /\ UNCHANGED <<authVars, users, playlistVars, brokerVars, likeVars, last, pre>>

\* [variant] the activity row is added after the commit and never committed
commit_song_unlogged(r) ==
    LET req == requests[r]
    IN  /\ last = Idle
        /\ req.pc = "commit"
        /\ UNCHANGED <<authVars, users, playlists, collaborations, songs, queue,
                       brokerVars, likeVars, last, pre, activities>>
        /\ playlist_songs' =
               IF SelectPlaylist(req.playlist_id) = {} THEN playlist_songs
               ELSE IF req.op = "add_song_to_playlist"
               THEN playlist_songs \cup
                       {[id |-> NewRowId(playlist_songs),
                         playlist_id |-> req.playlist_id, song_id |-> req.target]}
               ELSE {x \in playlist_songs :
                        ~(x.playlist_id = req.playlist_id /\ x.song_id = req.target)}
        /\ requests' = [requests EXCEPT ![r] =
              [req EXCEPT !.pc = "done",
                          !.result = IF SelectPlaylist(req.playlist_id) = {}
                                     THEN InternalServerError ELSE OK,
                          !.stood = Standing(req.playlist_id, req.current_user)]]

\* add_song_to_playlist / delete_song_from_playlist, from the membership
\* statement to db.commit(): the PlaylistSong row is inserted (or the rows
\* deleted) and the PlaylistActivity row inserted in one transaction.  A
\* parent row that is gone by now fails the foreign key (IntegrityError, 500)
\* and the transaction is rolled back.
commit_song(r) ==
    LET req == requests[r]
        orphan == \/ SelectPlaylist(req.playlist_id) = {}
                  \/ req.op = "add_song_to_playlist" /\ req.target \notin songs
        activity == [playlist_id |-> req.playlist_id, user_id |-> req.current_user,
                     song_id |-> req.target,
                     action |-> IF req.op = "add_song_to_playlist"
                                THEN "add" ELSE "delete",
                     time |-> now]
    IN  /\ last = Idle
        /\ req.pc = "commit"
        /\ UNCHANGED <<authVars, users, playlists, collaborations, songs, queue,
                       brokerVars, likeVars, last, pre>>
        /\ IF orphan
           THEN /\ requests' = [requests EXCEPT ![r] =
                      [req EXCEPT !.pc = "done", !.result = InternalServerError]]
                /\ UNCHANGED <<playlist_songs, activities>>
           ELSE /\ Len(activities) < MaxActivities
                /\ playlist_songs' =
                       IF req.op = "add_song_to_playlist"
                       THEN playlist_songs \cup
                               {[id |-> NewRowId(playlist_songs),
                                 playlist_id |-> req.playlist_id,
                                 song_id |-> req.target]}
                       ELSE {x \in playlist_songs :
                                ~(x.playlist_id = req.playlist_id
                                  /\ x.song_id = req.target)}
                /\ activities' = Append(activities, activity)
                /\ requests' = [requests EXCEPT ![r] =
                      [req EXCEPT !.pc = "done", !.result = OK,
                                  !.stood = Standing(req.playlist_id, req.current_user)]]

\* add_collaboration, up to the lookup of an existing row for the pair
select_collaboration(r) ==
    LET req == requests[r]
        found == SelectPlaylist(req.playlist_id)
        finish(result) == [req EXCEPT !.pc = "done", !.result = result,
                                      !.overlaps = Serving \ {r}]
    IN  /\ last = Idle
        /\ req.pc = "verify"
        /\ req.op = "add_collaboration"
        /\ requests' = [requests EXCEPT ![r] =
              IF found = {} THEN finish(PlaylistNotFound)
              ELSE IF \E pl \in found : pl.owner # req.current_user
              THEN finish(ForbiddenError)
              ELSE IF ~\E u \in users : u.id = req.target
              THEN finish(UserNotFound)
              ELSE IF CollaborationExists(req.playlist_id, req.target)
              THEN \* scalar_one() on the consumed result raises: 500
                   finish(InternalServerError)
              ELSE [req EXCEPT !.pc = "insert", !.overlaps = Serving \ {r}]]
        /\ UNCHANGED <<authVars, users, playlistVars, brokerVars, likeVars, last, pre>>

\* add_collaboration: db.add(new_collab); db.commit(); db.refresh(new_collab).
\* unique_playlist_user or the foreign key to playlists can fail the INSERT
\* (IntegrityError, which nothing catches: 500).
insert_collaboration(r) ==
    LET req == requests[r]
    IN  /\ last = Idle
        /\ req.pc = "insert"
        /\ UNCHANGED <<authVars, users, playlists, songs, playlist_songs, activities,
                       queue, brokerVars, likeVars, last, pre>>
        /\ IF \/ SelectPlaylist(req.playlist_id) = {}
              \/ CollaborationExists(req.playlist_id, req.target)
           THEN /\ requests' = [requests EXCEPT ![r] =
                      [req EXCEPT !.pc = "done", !.result = InternalServerError]]
                /\ UNCHANGED collaborations
           ELSE \E id \in CollaborationIds :
                    /\ \A c \in collaborations : c.id # id
                    /\ collaborations' = collaborations \cup
                           {[id |-> id, playlist_id |-> req.playlist_id,
                             user_id |-> req.target]}
                    /\ requests' = [requests EXCEPT ![r] =
                          [req EXCEPT !.pc = "done", !.result = OK, !.data = id]]

ReceiveSong == \E r \in Requests : receive_song(r)
VerifyAccess == \E r \in Requests : verify_access(r)
SelectSong == \E r \in Requests : select_song(r)
CommitSong == \E r \in Requests : commit_song(r)

\* the requests that set the scene, served before the one followed arrives
EarlierSongRequest ==
    /\ \A r \in Requests : requests[r].pc = "idle"
    /\ CreatePlaylist \/ CreateSong \/ AddCollaboration

NextSongRace ==
    \/ EarlierSongRequest \/ Respond
    \/ DeleteCollaboration \/ DeletePlaylist \/ DeleteSong
    \/ ReceiveSong \/ VerifyAccess \/ SelectSong \/ CommitSong

SpecSongRace == InitPlaylist /\ [][NextSongRace]_vars

ReceiveCollaboration == \E r \in Requests : receive_collaboration(r)
SelectCollaboration == \E r \in Requests : select_collaboration(r)
InsertCollaboration == \E r \in Requests : insert_collaboration(r)

\* the playlists are created before the concurrent requests arrive
EarlierPlaylist ==
    /\ \A r \in Requests : requests[r].pc = "idle"
    /\ CreatePlaylist

NextCollaborationRace ==
    \/ EarlierPlaylist \/ Respond
    \/ DeleteCollaboration \/ DeletePlaylist
    \/ ReceiveCollaboration \/ SelectCollaboration \/ InsertCollaboration

SpecCollaborationRace == InitPlaylist /\ [][NextCollaborationRace]_vars

----------------------------------------------------------------------------
(* Album likes, concurrent requests: the like, unlike and count requests   *)
(* step by step, each await (a statement on the session, a commit, a Redis *)
(* command) being a point where another request can run.                   *)

MutationOps == {"like_album", "unlike_album"}

\* a request that has arrived.  `bare` notes whether the user had no like row
\* on the album then, `quiet` whether no like or unlike was in progress then,
\* `valid` collects the counts the store holds for the album from then on,
\* and `raised` notes the statement an error came from.
LikesRequest(op, current_user, id) ==
    [pc |-> IF op = "like_album" THEN "check"
            ELSE IF op = "unlike_album" THEN "remove" ELSE "read",
     op |-> op, current_user |-> current_user, id |-> id, overlaps |-> {},
     result |-> None, likes |-> None, source |-> None, raised |-> None,
     bare |-> IF SelectLike(likes, current_user, id) = {} THEN "yes" ELSE "no",
     quiet |-> IF \E q \in Serving : requests[q].op \in MutationOps
               THEN "no" ELSE "yes",
     valid |-> {get_likes_count(id)}]

\* the requests after a like or unlike of the album has committed: the
\* requests in progress on that album have seen the store hold `count`
Noting(reqs, id, count) ==
    [q \in Requests |->
        IF reqs[q].pc \notin {"idle", "done"} /\ reqs[q].id = id
        THEN [reqs[q] EXCEPT !.valid = @ \cup {count}]
        ELSE reqs[q]]

\* POST, DELETE or GET /albums/{id}/likes arrives
receive_likes(r) ==
    /\ last = Idle
    /\ requests[r].pc = "idle"
    /\ \E id \in albums :
          \/ \E op \in MutationOps, u \in RequesterIds :
                requests' = [requests EXCEPT ![r] = LikesRequest(op, u, id)]
          \/ requests' = [requests EXCEPT ![r] =
                             LikesRequest("get_album_likes", None, id)]
    /\ UNCHANGED <<authVars, users, playlistVars, brokerVars, likeVars, last, pre>>

\* LikeService.add_like: _check_album_exists and the already-liked lookup
check_like(r) ==
    LET req == requests[r]
        result == add_like(req.current_user, req.id)
    IN  /\ last = Idle
        /\ req.pc = "check"
        /\ requests' = [requests EXCEPT ![r] =
              IF result = OK
              THEN [req EXCEPT !.pc = "commit", !.overlaps = Serving \ {r}]
              ELSE [req EXCEPT !.pc = "done", !.result = result,
                               !.raised = "select", !.overlaps = Serving \ {r}]]
        /\ UNCHANGED <<authVars, users, playlistVars, brokerVars, likeVars, last, pre>>

\* [variant] the table has no uq_user_album_like: the INSERT never fails
commit_like_unconstrained(r) ==
    LET req == requests[r]
        row == NewLike(req.current_user, req.id)
    IN  /\ last = Idle
        /\ req.pc = "commit"
        /\ UNCHANGED <<authVars, users, playlistVars, brokerVars, albums, cache,
                       cache_up, fresh, unliked, last, pre>>
        /\ likes' = likes \cup {row}
        /\ requests' = Noting([requests EXCEPT ![r] = [req EXCEPT !.pc = "invalidate"]],
                              req.id, get_likes_count(req.id) + 1)

\* LikeService.add_like: db.add(like); db.commit().  uq_user_album_like fails
\* the INSERT when a row for the pair has been committed meanwhile: the
\* IntegrityError is caught, rolled back and raised as ValidationError.
commit_like(r) ==
    LET req == requests[r]
        row == NewLike(req.current_user, req.id)
    IN  /\ last = Idle
        /\ req.pc = "commit"
        /\ UNCHANGED <<authVars, users, playlistVars, brokerVars, albums, cache,
                       cache_up, fresh, unliked, last, pre>>
        /\ IF SelectLike(likes, req.current_user, req.id) # {} \/ req.id \notin albums
           THEN /\ requests' = [requests EXCEPT ![r] =
                      [req EXCEPT !.pc = "done", !.result = ValidationError,
                                  !.raised = "commit"]]
                /\ UNCHANGED likes
           ELSE /\ likes' = likes \cup {row}
                /\ requests' =
                      Noting([requests EXCEPT ![r] = [req EXCEPT !.pc = "invalidate"]],
                             req.id, get_likes_count(req.id) + 1)

\* LikeService.remove_like: the DELETE and db.commit()
commit_unlike(r) ==
    LET req == requests[r]
        rows == remove_like(req.current_user, req.id)
    IN  /\ last = Idle
        /\ req.pc = "remove"
        /\ UNCHANGED <<authVars, users, playlistVars, brokerVars, albums, cache,
                       cache_up, fresh, unliked, last, pre>>
        /\ likes' = rows
        /\ requests' =
              Noting([requests EXCEPT ![r] =
                         [req EXCEPT !.pc = "invalidate", !.overlaps = Serving \ {r}]],
                     req.id, Cardinality({l \in rows : l.album_id = req.id}))

\* like_album / unlike_album: cache.delete(get_likes_cache_key(id)), and the
\* success response
invalidate(r) ==
    LET req == requests[r]
    IN  /\ last = Idle
        /\ req.pc = "invalidate"
        /\ cache' = cache_delete(get_likes_cache_key(req.id))
        /\ requests' = [requests EXCEPT ![r] = [req EXCEPT !.pc = "done", !.result = OK]]
        /\ UNCHANGED <<authVars, users, playlistVars, brokerVars, albums, likes,
                       cache_up, fresh, unliked, last, pre>>

\* get_album_likes: cache.get(cache_key), and the response on a hit
read_cache(r) ==
    LET req == requests[r]
        cached_count == cache_get(get_likes_cache_key(req.id))
    IN  /\ last = Idle
        /\ req.pc = "read"
        /\ requests' = [requests EXCEPT ![r] =
              IF cached_count # None
              THEN [req EXCEPT !.pc = "done", !.result = OK,
                               !.likes = int(cached_count), !.source = "cache",
                               !.overlaps = Serving \ {r}]
              ELSE [req EXCEPT !.pc = "count", !.overlaps = Serving \ {r}]]
        /\ UNCHANGED <<authVars, users, playlistVars, brokerVars, likeVars, last, pre>>

\* get_album_likes: service.get_likes_count(id)
count_likes(r) ==
    LET req == requests[r]
    IN  /\ last = Idle
        /\ req.pc = "count"
        /\ requests' = [requests EXCEPT ![r] =
              [req EXCEPT !.pc = "write", !.likes = get_likes_count(req.id)]]
        /\ UNCHANGED <<authVars, users, playlistVars, brokerVars, likeVars, last, pre>>

\* get_album_likes: cache.set(cache_key, str(count), CACHE_TTL), and the
\* response
write_cache(r) ==
    LET req == requests[r]
    IN  /\ last = Idle
        /\ req.pc = "write"
        /\ cache' = cache_set(get_likes_cache_key(req.id), str(req.likes), CACHE_TTL)
        /\ requests' = [requests EXCEPT ![r] = [req EXCEPT !.pc = "done", !.result = OK]]
        /\ UNCHANGED <<authVars, users, playlistVars, brokerVars, albums, likes,
                       cache_up, fresh, unliked, last, pre>>

\* the response has gone out and the task ends; a request that arrives
\* later has not run concurrently with the ones it ran next to
reply(r) ==
    /\ last = Idle
    /\ requests[r].pc = "done"
    /\ requests' = [q \in Requests |->
                       IF q = r THEN NoRequest
                       ELSE [requests[q] EXCEPT !.overlaps = @ \ {r}]]
    /\ UNCHANGED <<authVars, users, playlistVars, brokerVars, likeVars, last, pre>>

ReceiveLikes == \E r \in Requests : receive_likes(r)
CheckLike == \E r \in Requests : check_like(r)
CommitLike == \E r \in Requests : commit_like(r)
CommitUnlike == \E r \in Requests : commit_unlike(r)
Invalidate == \E r \in Requests : invalidate(r)
ReadCache == \E r \in Requests : read_cache(r)
CountLikes == \E r \in Requests : count_likes(r)
WriteCache == \E r \in Requests : write_cache(r)
Reply == \E r \in Requests : reply(r)

\* the album is created before the concurrent requests arrive; the requests
\* followed are those on one album (requests on different albums share
\* neither a like row nor a cache key)
EarlierAlbum ==
    /\ \A r \in Requests : requests[r].pc = "idle"
    /\ albums = {}
    /\ CreateAlbum

NextLikesRace ==
    \/ EarlierAlbum \/ Respond
    \/ ReceiveLikes \/ CheckLike \/ CommitLike \/ CommitUnlike \/ Invalidate
    \/ ReadCache \/ CountLikes \/ WriteCache \/ Reply

SpecLikesRace == InitPlaylist /\ [][NextLikesRace]_vars

----------------------------------------------------------------------------
(* Token service: properties *)

\* C1: once rotate(t) or logout(t) has succeeded, every later rotate(t) fails
\* with the not-found error (ValidationError, 400) and issues no new tokens.
C1_ConsumedTokenNeverRotatesAgain ==
    (last.op = "refresh_token" /\ last.token \in pre.consumed) =>
        /\ last.result = ValidationError
        /\ last.accessToken = NoToken
        /\ last.refreshToken = NoToken

\* C2: rotate(t) for a t that is in the allow-list but fails the
\* signature/expiry/type check fails with AuthenticationError; t's record is
\* deleted and stays deleted, and no record is added.
C2_InvalidRotationBurnsToken ==
    (/\ last.op = "refresh_token"
     /\ last.token \in pre.authentications
     /\ verify_refresh_token(last.token) = None) =>
        /\ last.result = AuthenticationError
        /\ authentications = pre.authentications \ {last.token}
        /\ last.refreshToken = NoToken

C2_Witness ==
    /\ last.op = "refresh_token"
    /\ last.token \in pre.authentications
    /\ verify_refresh_token(last.token) = None
    /\ last.token \notin authentications

C4_ValidLoginSucceeds ==
    \A u \in users :
        (/\ last.op = "login"
         /\ last.username = u.username
         /\ verify_password(last.password, u.password)) =>
            /\ last.result = OK
            /\ verify_access_token(last.accessToken) = u.id
            /\ last.refreshToken \in authentications

\* C5: a refresh token issued by the service is never accepted by
\* verifyAccess, and an issued access token never passes rotation.
C5_TokenKindsNotInterchangeable ==
    /\ \A t \in issued :
          /\ t.type = "refresh" => verify_access_token(t) = None
          /\ t.type = "access" => verify_refresh_token(t) = None
    /\ (last.op = "get_current_user" /\ last.token.type = "refresh") =>
          last.result = Unauthorized
    /\ (last.op = "refresh_token" /\ last.token.type = "access") =>
          /\ last.result # OK
          /\ last.refreshToken = NoToken

\* an unexpired refresh token, signed with the very key that access tokens
\* are verified with, is presented as a bearer token and refused
C5_Witness ==
    /\ last.op = "get_current_user"
    /\ last.token \in issued
    /\ last.token.type = "refresh"
    /\ last.token.key = settings.ACCESS_TOKEN_KEY
    /\ last.token.exp > now
    /\ last.result = Unauthorized

----------------------------------------------------------------------------
(* Playlist command processor: properties *)

\* C6: for every store state, playlist id p and user u, the access resolver
\* fails with NotFound iff no playlist p exists; otherwise it grants access iff
\* u owns p or a Collaboration row (p, u) exists, and fails with Forbidden in
\* every remaining case. The shared-tier requests answer accordingly.
C6_AccessResolver ==
    /\ \A p \in PlaylistIds, u \in RequesterIds :
          LET exists == \E pl \in playlists : pl.id = p
              owner == \E pl \in playlists : pl.id = p /\ pl.owner = u
              collaborator ==
                  \E c \in collaborations : c.playlist_id = p /\ c.user_id = u
          IN  verify_playlist_access(p, u) =
                  IF ~exists THEN PlaylistNotFound
                  ELSE IF owner \/ collaborator THEN OK
                  ELSE ForbiddenError
    /\ last.op \in {"add_song_to_playlist", "delete_song_from_playlist",
                    "get_playlist_with_songs"} =>
          LET p == last.playlist_id
              u == last.current_user
              exists == \E pl \in pre.playlists : pl.id = p
              owner == \E pl \in pre.playlists : pl.id = p /\ pl.owner = u
              collaborator ==
                  \E c \in pre.collaborations : c.playlist_id = p /\ c.user_id = u
          IN  /\ last.result = PlaylistNotFound <=> ~exists
              /\ last.result = ForbiddenError <=>
                     (exists /\ ~owner /\ ~collaborator)
              /\ last.result \in {OK, SongNotFound} <=>
                     (exists /\ (owner \/ collaborator))

\* a user who collaborates on one playlist is refused on another playlist
\* that exists and that they neither own nor collaborate on
C6_Witness ==
    /\ last.op \in {"add_song_to_playlist", "delete_song_from_playlist"}
    /\ last.result = ForbiddenError
    /\ \E pl \in pre.playlists : pl.id = last.playlist_id
    /\ \E c \in pre.collaborations :
          c.user_id = last.current_user /\ c.playlist_id # last.playlist_id

\* C7: for a playlist p and a user u who is not p's owner, a shared-tier
\* request (add song, remove song, view songs) by u fails with Forbidden while
\* no Collaboration (p, u) exists and succeeds while one exists; the owner's
\* addCollaborator(p, u) creates the row and removeCollaborator(p, u) removes it.
C7_CollaborationGrantsAndRevokes ==
    /\ (/\ last.op \in {"add_song_to_playlist", "delete_song_from_playlist",
                        "get_playlist_with_songs"}
        /\ \E pl \in pre.playlists :
              pl.id = last.playlist_id /\ pl.owner # last.current_user) =>
          IF \E c \in pre.collaborations :
                 c.playlist_id = last.playlist_id /\ c.user_id = last.current_user
          THEN IF last.op = "add_song_to_playlist" /\ last.target \notin pre.songs
               THEN last.result = SongNotFound
               ELSE last.result = OK
          ELSE /\ last.result = ForbiddenError
               /\ PlaylistSnapshot = pre
    /\ (/\ last.op = "add_collaboration"
        /\ \E pl \in pre.playlists :
              pl.id = last.playlist_id /\ pl.owner = last.current_user
        /\ last.target \in RequesterIds
        /\ ~\E c \in pre.collaborations :
              c.playlist_id = last.playlist_id /\ c.user_id = last.target) =>
          /\ last.result = OK
          /\ CollaborationExists(last.playlist_id, last.target)
    /\ (/\ last.op = "delete_collaboration"
        /\ \E pl \in pre.playlists :
              pl.id = last.playlist_id /\ pl.owner = last.current_user) =>
          /\ last.result = OK
          /\ ~CollaborationExists(last.playlist_id, last.target)

\* a user who added a song to another user's playlist while collaborating on
\* it is refused the same request after the collaboration was removed
C7_Witness ==
    /\ last.op = "add_song_to_playlist"
    /\ last.result = ForbiddenError
    /\ \E i \in 1..Len(pre.activities) :
          /\ pre.activities[i].playlist_id = last.playlist_id
          /\ pre.activities[i].user_id = last.current_user
          /\ pre.activities[i].action = "add"
    /\ \E pl \in pre.playlists :
          pl.id = last.playlist_id /\ pl.owner # last.current_user

\* C8: the strict-owner operations (delete playlist, add collaborator, remove
\* collaborator, view activity log, request export) succeed only for the
\* playlist's owner; requested by any other user they fail with Forbidden and
\* leave playlists, collaborations, memberships, activities and the export
\* queue unchanged.
C8_StrictOwnerOperations ==
    (/\ last.op \in {"delete_playlist", "add_collaboration", "delete_collaboration",
                     "get_playlist_activities", "export_playlist"}
     /\ \E pl \in pre.playlists :
           pl.id = last.playlist_id /\ pl.owner # last.current_user) =>
        /\ last.result = ForbiddenError
        /\ PlaylistSnapshot = pre

\* C9: an owner's addCollaborator(p, u) for a pair that already has a
\* Collaboration row succeeds, returns the id of that row, and leaves exactly
\* one row for (p, u).
C9_AddCollaboratorIdempotent ==
    (/\ last.op = "add_collaboration"
     /\ \E pl \in pre.playlists :
           pl.id = last.playlist_id /\ pl.owner = last.current_user
     /\ \E c \in pre.collaborations :
           c.playlist_id = last.playlist_id /\ c.user_id = last.target) =>
        /\ last.result = OK
        /\ \E c \in pre.collaborations :
              /\ c.playlist_id = last.playlist_id
              /\ c.user_id = last.target
              /\ last.data = c.id
        /\ Cardinality({c \in collaborations :
              c.playlist_id = last.playlist_id /\ c.user_id = last.target}) = 1

\* C10: addSongToPlaylist and removeSongFromPlaylist, requested by the owner
\* or a collaborator with a song id that is not in the catalog, fail with
\* NotFound, and no PlaylistSong row is added or removed and no
\* PlaylistActivity row is written.
C10_MissingSongRejectedBeforeMutation ==
    (/\ last.op \in {"add_song_to_playlist", "delete_song_from_playlist"}
     /\ \/ \E pl \in pre.playlists :
              pl.id = last.playlist_id /\ pl.owner = last.current_user
        \/ \E c \in pre.collaborations :
              c.playlist_id = last.playlist_id /\ c.user_id = last.current_user
     /\ last.target \notin pre.songs) =>
        /\ last.result = SongNotFound
        /\ playlist_songs = pre.playlist_songs
        /\ activities = pre.activities

\* C11: getPlaylistActivities(P, owner) returns exactly one entry for each
\* activity row recorded for P, including rows whose song was later removed
\* from the playlist or deleted from the catalog, each with the acting user's
\* username, the song and the action, in the order the rows were recorded.
C11_ActivitiesComplete ==
    (last.op = "get_playlist_activities" /\ last.result = OK) =>
        LET recorded == SelectSeq(pre.activities,
                            LAMBDA a : a.playlist_id = last.playlist_id)
        IN  /\ Len(last.data) = Len(recorded)
            /\ \A i \in 1..Len(recorded) :
                  /\ last.data[i].title = recorded[i].song_id
                  /\ last.data[i].action = recorded[i].action
                  /\ \E u \in pre.users :
                        /\ u.id = recorded[i].user_id
                        /\ u.username = last.data[i].username

\* C12: a successful deletePlaylist(P) by the owner removes P together with
\* every Collaboration, PlaylistSong and PlaylistActivity row that references
\* P, and leaves all Song rows, all User rows and every row of other
\* playlists unchanged.
C12_DeletePlaylistCascade ==
    (last.op = "delete_playlist" /\ last.result = OK) =>
        LET P == last.playlist_id
        IN  /\ playlists = {pl \in pre.playlists : pl.id # P}
            /\ collaborations = {c \in pre.collaborations : c.playlist_id # P}
            /\ playlist_songs = {r \in pre.playlist_songs : r.playlist_id # P}
            /\ activities = SelectSeq(pre.activities, LAMBDA a : a.playlist_id # P)
            /\ songs = pre.songs
            /\ users = pre.users
            /\ queue = pre.queue

\* a playlist with a song and an activity row is deleted while another
\* playlist has a collaborator, whose row is still there afterwards
C12_Witness ==
    /\ last.op = "delete_playlist"
    /\ last.result = OK
    /\ \E r \in pre.playlist_songs : r.playlist_id = last.playlist_id
    /\ \E i \in 1..Len(pre.activities) :
          pre.activities[i].playlist_id = last.playlist_id
    /\ \E c \in collaborations : c.playlist_id # last.playlist_id
    /\ pre.songs # {}

\* C13: listPlaylists(u) returns exactly the playlists that u owns or has a
\* Collaboration row on, each exactly once, each with the owner's username.
C13_ListPlaylists ==
    last.op = "get_playlists" =>
        LET u == last.current_user
            visible == {pl \in pre.playlists :
                           \/ pl.owner = u
                           \/ \E c \in pre.collaborations :
                                 c.playlist_id = pl.id /\ c.user_id = u}
        IN  /\ last.result = OK
            /\ {e.id : e \in DOMAIN last.data} = {pl.id : pl \in visible}
            /\ \A e \in DOMAIN last.data :
                  /\ last.data[e] = 1
                  /\ \E pl \in visible, o \in pre.users :
                        /\ pl.id = e.id /\ pl.name = e.name
                        /\ o.id = pl.owner /\ o.username = e.username
            /\ Cardinality(DOMAIN last.data) = Cardinality(visible)

\* a user lists playlists and sees one they own that has two collaborators
C13_Witness ==
    /\ last.op = "get_playlists"
    /\ \E e \in DOMAIN last.data :
          Cardinality({c \in pre.collaborations : c.playlist_id = e.id}) = 2

\* C14: requestExport(p, email, requester) publishes exactly one message
\* {playlistId: p, targetEmail: email} and succeeds when p exists and the
\* requester owns it; it publishes nothing and fails with NotFound when p does
\* not exist, and with Forbidden when the requester is not the owner.
C14_ExportPublishesForOwnerOnly ==
    last.op = "export_playlist" =>
        LET found == {pl \in pre.playlists : pl.id = last.playlist_id}
        IN  IF found = {}
            THEN last.result = PlaylistNotFound /\ queue = pre.queue
            ELSE IF \E pl \in found : pl.owner # last.current_user
            THEN last.result = ForbiddenError /\ queue = pre.queue
            ELSE /\ last.result = OK
                 /\ Len(queue) = Len(pre.queue) + 1
                 /\ SubSeq(queue, 1, Len(pre.queue)) = pre.queue
                 /\ queue[Len(queue)].body =
                        [playlistId |-> last.playlist_id, targetEmail |-> last.target]

----------------------------------------------------------------------------
(* Export queue: properties *)

\* C15: an export message that was published and has not been consumed
\* survives a broker restart: every message in the queue before the restart
\* is in the queue after it.
C15_MessagesSurviveRestart ==
    [][restarts' # restarts => queue' = queue]_vars

----------------------------------------------------------------------------
(* Album likes and their cache: properties *)

\* C16: with Redis answering, getLikesCount(albumId) on a cache hit for key
\* likes:{albumId} returns the cached integer, marks the response as
\* cache-sourced, and neither queries the store nor writes the cache; on a
\* miss it returns the store's count without the mark and writes that count
\* under the same key with a TTL of 1800 seconds.
C16_CacheAside ==
    (last.op = "get_album_likes" /\ pre.cache_up) =>
        LET key == <<"likes", last.id>>
            hit == {e \in pre.cache : e.key = key /\ e.expires_at > pre.now}
            count == Cardinality({l \in pre.likes : l.album_id = last.id})
        IN  /\ last.result = OK
            /\ IF hit # {}
               THEN /\ \A e \in hit : Digits[last.likes + 1] = e.value
                    /\ last.source = "cache"
                    /\ ~last.store_queried
                    /\ cache = pre.cache
               ELSE /\ last.likes = count
                    /\ last.source # "cache"
                    /\ cache = {e \in pre.cache : e.key # key} \cup
                          {[key |-> key, value |-> Digits[count + 1],
                            expires_at |-> pre.now + 1800]}

\* a hit that answers from the cache while the store holds another count
C16_Witness ==
    /\ last.op = "get_album_likes"
    /\ pre.cache_up
    /\ last.source = "cache"
    /\ last.likes # Cardinality({l \in pre.likes : l.album_id = last.id})

C18_CacheFailOpen ==
    /\ last.op \in {"get_album_likes", "like_album", "unlike_album"} =>
          last.result # InternalServerError
    /\ (last.op = "get_album_likes" /\ ~pre.cache_up) =>
          /\ last.result = OK
          /\ last.source # "cache"
          /\ last.likes = Cardinality({l \in pre.likes : l.album_id = last.id})
    /\ (last.op = "like_album" /\ ~pre.cache_up /\ last.id \in pre.albums
        /\ ~\E l \in pre.likes :
              l.user_id = last.current_user /\ l.album_id = last.id) =>
          /\ last.result = OK
          /\ \E l \in likes : l.user_id = last.current_user /\ l.album_id = last.id
    /\ (last.op = "unlike_album" /\ ~pre.cache_up) =>
          /\ last.result = OK
          /\ ~\E l \in likes : l.user_id = last.current_user /\ l.album_id = last.id

\* the count is read while Redis is down and holds an unexpired entry for the key
C18_Witness ==
    /\ last.op = "get_album_likes"
    /\ ~pre.cache_up
    /\ \E e \in pre.cache : e.key = <<"likes", last.id>> /\ e.expires_at > pre.now
    /\ last.likes > 0

\* C19: a like issued while a like row for (user, album) exists fails with
\* ValidationError and leaves the like rows unchanged; a like of an existing
\* album by a user without such a row, also after an unlike, succeeds and
\* adds the row; an unlike removes it.
C19_DoubleLikeRejected ==
    /\ last.op = "like_album" =>
          LET mine(l) == l.user_id = last.current_user /\ l.album_id = last.id
          IN  IF last.id \notin pre.albums
              THEN last.result = AlbumNotFound /\ likes = pre.likes
              ELSE IF \E l \in pre.likes : mine(l)
              THEN last.result = ValidationError /\ likes = pre.likes
              ELSE /\ last.result = OK
                   /\ pre.likes \subseteq likes
                   /\ Cardinality(likes \ pre.likes) = 1
                   /\ \A l \in likes \ pre.likes : mine(l)
    /\ last.op = "unlike_album" =>
          /\ last.result = OK
          /\ likes = {l \in pre.likes :
                         ~(l.user_id = last.current_user /\ l.album_id = last.id)}

\* a user likes again an album they had liked and unliked, while the other
\* user's like is in place
C19_Witness ==
    /\ last.op = "like_album"
    /\ last.result = OK
    /\ [user_id |-> last.current_user, album_id |-> last.id] \in pre.unliked
    /\ \E l \in pre.likes : l.album_id = last.id

----------------------------------------------------------------------------
(* Token service, concurrent requests: properties *)

\* C20: of two requests that consume the same refresh token (two rotations,
\* or a rotation and a logout) and run concurrently, at most one succeeds.
C20_AtMostOneConcurrentConsumer ==
    \A r, q \in Requests :
        (/\ r # q
         /\ q \in requests[r].overlaps
         /\ requests[r].token = requests[q].token
         /\ requests[r].op = "refresh_token"
         /\ requests[r].pc = "done"
         /\ requests[q].pc = "done") =>
            ~(requests[r].result = OK /\ requests[q].result = OK)

----------------------------------------------------------------------------
(* Token service: issuance *)

\* C27: every refresh token that login or rotate returns is a string that was
\* never issued before, also for the same user within the same clock second;
\* rotate(t) never returns t itself, and a token whose record was deleted by a
\* successful rotate or logout is never issued again.
C27_IssuedTokensAreNew ==
    (last.op \in {"login", "refresh_token"} /\ last.result = OK) =>
        /\ last.refreshToken \notin pre.issued
        /\ last.refreshToken # last.token
        /\ last.refreshToken \notin pre.consumed

\* C29: verifyAccess depends on the token alone (signature, expiry, type) and
\* not on the store: a bearer token is accepted exactly when it is signed with
\* the access key, unexpired and of type access, whatever the allow-list
\* holds, so an access token stays accepted until it expires after its
\* companion refresh token was rotated or logged out; the check changes nothing.
C29_VerifyAccessStateless ==
    last.op = "get_current_user" =>
        /\ last.result \in {OK, Unauthorized}
        /\ last.result = OK <=>
              /\ last.token.key = settings.ACCESS_TOKEN_KEY
              /\ last.token.exp > now
              /\ last.token.type = "access"
              /\ last.token.userId # None
        /\ authentications = pre.authentications
        /\ issued = pre.issued

\* an access token is accepted after the refresh token issued with it was
\* consumed and while its user has no refresh token in the allow-list
C29_Witness ==
    /\ last.op = "get_current_user"
    /\ last.result = OK
    /\ \E t \in pre.consumed : t.userId = last.token.userId
    /\ ~\E t \in authentications : t.userId = last.token.userId

----------------------------------------------------------------------------
(* Playlist command processor, concurrent requests: properties *)

\* C21: whenever an add-song or remove-song request of a user who does not
\* own the playlist commits, a Collaboration row for (playlist, user) exists
\* at that moment, in every interleaving with the owner's removal of the
\* collaborator and with the deletion of the playlist.
C21_CommitNeedsLiveGrant ==
    \A r \in Requests :
        (/\ requests[r].pc = "done"
         /\ requests[r].op \in SongOps
         /\ requests[r].result = OK
         /\ requests[r].stood # "owner") =>
            requests[r].stood = "collaborator"

C28_ConcurrentAddCollaboratorIdempotent ==
    \A r, q \in Requests :
        (/\ r # q
         /\ requests[r].pc = "done" /\ requests[q].pc = "done"
         /\ requests[r].op = "add_collaboration"
         /\ requests[q].op = "add_collaboration"
         /\ q \in requests[r].overlaps
         /\ requests[r].playlist_id = requests[q].playlist_id
         /\ requests[r].target = requests[q].target) =>
            /\ requests[r].result = OK
            /\ requests[q].result = OK
            /\ requests[r].data = requests[q].data

----------------------------------------------------------------------------
(* Album likes, concurrent requests: properties *)

\* C26: a count request that starts when every like and unlike committed so
\* far has responded returns a count the store has held for the album since
\* then, in every interleaving with other count, like and unlike requests:
\* no reader leaves a count from before a mutation in the cache.
C26_NoStaleCountAfterInvalidation ==
    \A r \in Requests :
        (/\ requests[r].pc = "done"
         /\ requests[r].op = "get_album_likes"
         /\ requests[r].quiet = "yes") =>
            /\ requests[r].result = OK
            /\ requests[r].likes \in requests[r].valid

\* C30: no (user, album) pair ever has two like rows; of two like requests
\* of one user for one album that run concurrently (each has arrived when the
\* other looks for the row), the user having no like row when they arrive,
\* exactly one succeeds and the other fails with ValidationError, and the
\* pair has one row: the count has risen by one.
C30_ConcurrentLikesOneRow ==
    /\ \A u \in RequesterIds, a \in AlbumIds :
          Cardinality({l \in likes : l.user_id = u /\ l.album_id = a}) <= 1
    /\ \A r, q \in Requests :
          (/\ r # q
           /\ requests[r].pc = "done" /\ requests[q].pc = "done"
           /\ requests[r].op = "like_album" /\ requests[q].op = "like_album"
           /\ requests[r].current_user = requests[q].current_user
           /\ requests[r].id = requests[q].id
           /\ q \in requests[r].overlaps /\ r \in requests[q].overlaps
           /\ requests[r].bare = "yes" /\ requests[q].bare = "yes") =>
              /\ {requests[r].result, requests[q].result} = {OK, ValidationError}
              /\ Cardinality({l \in likes :
                                 /\ l.user_id = requests[r].current_user
                                 /\ l.album_id = requests[r].id}) = 1

\* both requests found no row, both inserted, and the second commit ran into
\* the unique constraint
C30_Witness ==
    \E r, q \in Requests :
        /\ r # q
        /\ requests[r].pc = "done" /\ requests[q].pc = "done"
        /\ requests[r].op = "like_album" /\ requests[q].op = "like_album"
        /\ requests[r].current_user = requests[q].current_user
        /\ q \in requests[r].overlaps /\ r \in requests[q].overlaps
        /\ requests[r].bare = "yes" /\ requests[q].bare = "yes"
        /\ requests[r].result = OK
        /\ requests[q].result = ValidationError
        /\ requests[q].raised = "commit"

----------------------------------------------------------------------------
(* Export consumer: properties *)

\* something published is still to be acknowledged
Pending == queue # <<>> \/ unacked # <<>>

\* C24: the consumer acknowledges a message only after its handler has
\* completed: a message leaves the broker only in a step that takes a handler
\* that has finished (it stands at the exit of message.process() with its
\* outcome logged) and records it as processed; when the consumer process
\* dies, every message delivered and not acknowledged is back in the queue,
\* none is gone; and whatever is in the queue or unacknowledged is in the end
\* handled and acknowledged, the crash notwithstanding.
C24_AckAfterHandler ==
    /\ [][/\ Len(queue') + Len(unacked') < Len(queue) + Len(unacked) =>
                \E i \in DOMAIN unacked :
                    /\ unacked[i].pc = "ack"
                    /\ unacked[i].outcome \in Failures \cup {"mail sent"}
                    /\ Len(unacked') = Len(unacked) - 1
                    /\ queue' = queue
                    /\ delivered' = Append(delivered,
                           [body |-> unacked[i].message.body,
                            outcome |-> unacked[i].outcome])
          /\ Len(delivered') >= Len(delivered)
          /\ crashes' # crashes =>
                /\ unacked' = <<>>
                /\ Len(queue') = Len(unacked) + Len(queue)
                /\ \A i \in DOMAIN unacked :
                      queue'[i].body = unacked[i].message.body
                /\ \A i \in DOMAIN queue :
                      queue'[Len(unacked) + i].body = queue[i].body
         ]_vars
    /\ Pending ~> ~Pending

\* a message that was with a handler when the consumer died has been delivered
\* again and its mail sent
C24_Witness ==
    /\ crashes > 0
    /\ \E i \in DOMAIN unacked :
          /\ "redelivered" \in DOMAIN unacked[i].message
          /\ unacked[i].pc = "ack"
          /\ unacked[i].outcome = "mail sent"

\* C25: a failure while one message is handled (body not JSON, field missing,
\* playlist gone, store error, mail not sent) is kept to that message: the
\* handler that failed goes on to the exit of message.process(), the consumer
\* process does not die of it and no other handler is disturbed; the message
\* is then acknowledged and recorded with its failure, and is not put back in
\* the queue: unless the consumer process dies, no message that was delivered
\* is ever in the queue again; and once the handling of a message has failed,
\* that message and whatever else is in the queue or with a handler are
\* acknowledged in the end.
C25_FailureIsolated ==
    /\ [][/\ \A i \in DOMAIN unacked' :
                (unacked'[i].outcome \in Failures) => unacked'[i].pc = "ack"
          /\ \A i \in DOMAIN unacked :
                (unacked[i].outcome \in Failures /\ crashes' = crashes) =>
                    \/ \E j \in DOMAIN unacked' : unacked'[j] = unacked[i]
                    \/ /\ queue' = queue
                       /\ delivered' = Append(delivered,
                              [body |-> unacked[i].message.body,
                               outcome |-> unacked[i].outcome])
          /\ Cardinality({i \in DOMAIN unacked' : unacked'[i].outcome \in Failures})
                > Cardinality({i \in DOMAIN unacked : unacked[i].outcome \in Failures}) =>
                    /\ crashes' = crashes
                    /\ Len(unacked') >= Len(unacked)
                    /\ \A j \in DOMAIN unacked :
                          unacked'[j].message = unacked[j].message
          /\ crashes' = crashes =>
                \/ queue' = queue
                \/ queue # <<>> /\ queue' = Tail(queue)
                \/ /\ Len(queue') = Len(queue) + 1
                   /\ unacked' = unacked
                   /\ delivered' = delivered
         ]_vars
    /\ (/\ Pending
        /\ \/ \E i \in DOMAIN unacked : unacked[i].outcome \in Failures
           \/ \E n \in DOMAIN delivered : delivered[n].outcome \in Failures)
           ~> ~Pending

\* with no crash, a message was acknowledged after its handling failed and the
\* next one has had its mail sent
C25_Witness ==
    /\ crashes = 0
    /\ Len(delivered) = 2
    /\ delivered[1].outcome \in Failures
    /\ delivered[2].outcome = "mail sent"

============================================================================
